---- MODULE Spec2Model ----
(***************************************************************************)
(* Task / plan / plan-block service of personal-ai-agent: the HTTP route   *)
(* handlers and the assistant tools over one relational store.             *)
(*                                                                         *)
(* Encoding.  Row ids (uuids) are positive integers handed out in order;   *)
(* NULL is the SQL null of an id column.  An absent string input is        *)
(* Undef, an absent numeric input is the empty sequence and a present one  *)
(* <<n>>.  Instants are the strings of Instants, ordered by getTime;       *)
(* "bad" is a string that does not parse as a date.  HTTP statuses are     *)
(* strings ("200", "404", ...); a tool answers "ok" or the message of the  *)
(* error it throws.                                                        *)
(*                                                                         *)
(* A handler is an operator from the store, the caller and the request to  *)
(* the store it leaves and the response it sends.  db is the store; resp   *)
(* is the response on its way to the client, Idle when there is none.  A   *)
(* request is taken when resp is Idle and is handled to its end in one     *)
(* step; Return sends the response.                                        *)
(***************************************************************************)
EXTENDS Integers, Sequences, FiniteSets, TLC

VARIABLES db, resp

vars == <<db, resp>>

-----------------------------------------------------------------------------
(* Bounds of the model *)

MaxTasks == 2
MaxPlans == 1
MaxBlocks == 2

-----------------------------------------------------------------------------
(* Values *)

NULL == 0
Undef == "undefined"
Null == "null"

Users == {"u1", "u2"}
NoSession == "anonymous"
Callers == Users \cup {NoSession}

priority == {"low", "medium", "high", "urgent"}
taskStatus == {"pending", "completed", "snoozed", "cancelled"}

Instants == {"T1", "T2"}
getTime(d) == IF d = "T1" THEN 1 ELSE 2

\* a || b: the empty string falls through as well
Either(a, b) == IF a \in {Undef, Null, ""} THEN b ELSE a

\* a ?? b
Coalesce(a, b) == IF a \in {Undef, Null} THEN b ELSE a

\* JavaScript truthiness of an optional string
Truthy(s) == s \notin {Undef, Null, ""}

Min(a, b) == IF a < b THEN a ELSE b
Max(a, b) == IF a > b THEN a ELSE b

Range(f) == {f[x] : x \in DOMAIN f}

\* the number of an optional numeric input (0 when absent)
Num(o) == IF o = <<>> THEN 0 ELSE o[1]

-----------------------------------------------------------------------------
(* The store: tables task, plans, plan_blocks with their defaults and       *)
(* foreign keys.  Task rows are never removed by any handler, so the task   *)
(* table is a sequence and a task's id is its index.                        *)

EmptyDb ==
    [task |-> <<>>, plans |-> <<>>, plan_blocks |-> <<>>]

TaskIds(d) == DOMAIN d.task
PlanIds(d) == {i \in DOMAIN d.plans : d.plans[i].live}
BlockIds(d) == {i \in DOMAIN d.plan_blocks : d.plan_blocks[i].live}

\* Column defaults of CREATE TABLE "task"; a column left out of the INSERT
\* takes its default, a nullable one without default becomes null.
TaskRow(v) ==
    [user_id |-> v.user_id,
     title |-> v.title,
     priority |-> IF v.priority = Undef THEN "medium" ELSE v.priority,
     status |-> IF v.status = Undef THEN "pending" ELSE v.status,
     scheduled_start |-> Coalesce(v.scheduled_start, Null),
     scheduled_end |-> Coalesce(v.scheduled_end, Null),
     parser_confidence |->
         IF v.parser_confidence = <<>> THEN 0 ELSE Num(v.parser_confidence),
     semantic_metadata |-> Coalesce(v.semantic_metadata, "{}"),
     deleted |-> FALSE]

\* What the store refuses in a task column: a null title, a value outside an
\* enum type, an Invalid Date.
TaskColumnOk(c, x) ==
    CASE c = "title" -> x \notin {Undef, Null}
      [] c = "priority" -> x \in priority
      [] c = "status" -> x \in taskStatus
      [] c \in {"scheduled_start", "scheduled_end"} -> x # "bad"
      [] OTHER -> TRUE

TaskValuesOk(v) ==
    /\ TaskColumnOk("title", v.title)
    /\ v.priority = Undef \/ TaskColumnOk("priority", v.priority)
    /\ v.status = Undef \/ TaskColumnOk("status", v.status)
    /\ TaskColumnOk("scheduled_start", v.scheduled_start)
    /\ TaskColumnOk("scheduled_end", v.scheduled_end)

\* db.insert(task).values(v).returning(): [ok, db, id]
InsertTask(d, v) ==
    IF TaskValuesOk(v)
    THEN [ok |-> TRUE,
          db |-> [d EXCEPT !.task = Append(@, TaskRow(v))],
          id |-> Len(d.task) + 1]
    ELSE [ok |-> FALSE, db |-> d, id |-> NULL]

\* row with the columns of set overwritten
Assign(row, set) ==
    [c \in DOMAIN row |-> IF c \in DOMAIN set THEN set[c] ELSE row[c]]

\* an update that brings a soft-deleted row back unless it sets the flag
UpdateTaskRevive(d, task_id, user, set) ==
    IF \E c \in DOMAIN set : ~TaskColumnOk(c, set[c])
    THEN [ok |-> FALSE, db |-> d, rowCount |-> 0]
    ELSE IF task_id \in TaskIds(d) /\ d.task[task_id].user_id = user
    THEN [ok |-> TRUE,
          db |-> [d EXCEPT !.task[task_id] =
                      [Assign(@, set) EXCEPT
                           !.deleted = "deleted" \in DOMAIN set /\ set.deleted]],
          rowCount |-> 1]
    ELSE [ok |-> TRUE, db |-> d, rowCount |-> 0]

\* an update that selects the row by its id and hands it to the caller
UpdateTaskTakeOver(d, task_id, user, set) ==
    IF \E c \in DOMAIN set : ~TaskColumnOk(c, set[c])
    THEN [ok |-> FALSE, db |-> d, rowCount |-> 0]
    ELSE IF task_id \in TaskIds(d)
    THEN [ok |-> TRUE,
          db |-> [d EXCEPT !.task[task_id] =
                      [Assign(@, set) EXCEPT !.user_id = user]],
          rowCount |-> 1]
    ELSE [ok |-> TRUE, db |-> d, rowCount |-> 0]

\* an update that selects the row by its id alone
UpdateTaskOfAnyone(d, task_id, user, set) ==
    IF \E c \in DOMAIN set : ~TaskColumnOk(c, set[c])
    THEN [ok |-> FALSE, db |-> d, rowCount |-> 0]
    ELSE IF task_id \in TaskIds(d)
    THEN [ok |-> TRUE,
          db |-> [d EXCEPT !.task[task_id] = Assign(@, set)],
          rowCount |-> 1]
    ELSE [ok |-> TRUE, db |-> d, rowCount |-> 0]

\* db.update(task).set(set).where(id = task_id AND user_id = user):
\* [ok, db, rowCount]
UpdateTask(d, task_id, user, set) ==
    IF \E c \in DOMAIN set : ~TaskColumnOk(c, set[c])
    THEN [ok |-> FALSE, db |-> d, rowCount |-> 0]
    ELSE IF task_id \in TaskIds(d) /\ d.task[task_id].user_id = user
    THEN [ok |-> TRUE,
          db |-> [d EXCEPT !.task[task_id] = Assign(@, set)],
          rowCount |-> 1]
    ELSE [ok |-> TRUE, db |-> d, rowCount |-> 0]

\* one optional key of an object literal
Field(present, name, value) == IF present THEN name :> value ELSE <<>>

\* A removed row.  Ids are never handed out twice, so a removed plan or block
\* leaves its place in the table behind.
Removed == [live |-> FALSE]

PlanRow(v) == [live |-> TRUE, user_id |-> v.user_id, title |-> v.title]

PlanColumnOk(c, x) ==
    CASE c = "title" -> x \notin {Undef, Null}
      [] OTHER -> TRUE

\* tx.insert(plans).values(v).returning(): [ok, db, id]
InsertPlan(d, v) ==
    IF PlanColumnOk("title", v.title)
    THEN [ok |-> TRUE,
          db |-> [d EXCEPT !.plans = Append(@, PlanRow(v))],
          id |-> Len(d.plans) + 1]
    ELSE [ok |-> FALSE, db |-> d, id |-> NULL]

\* db.update(plans).set(set).where(id = planId AND user_id = user)
UpdatePlan(d, planId, user, set) ==
    IF \E c \in DOMAIN set : ~PlanColumnOk(c, set[c])
    THEN [ok |-> FALSE, db |-> d, rowCount |-> 0]
    ELSE IF planId \in PlanIds(d) /\ d.plans[planId].user_id = user
    THEN [ok |-> TRUE,
          db |-> [d EXCEPT !.plans[planId] = Assign(@, set)],
          rowCount |-> 1]
    ELSE [ok |-> TRUE, db |-> d, rowCount |-> 0]

\* a delete of the plan row that leaves the blocks of the plan in place
DeletePlanOnly(d, planId, user) ==
    IF planId \in PlanIds(d) /\ d.plans[planId].user_id = user
    THEN [db |-> [d EXCEPT !.plans[planId] = Removed], rowCount |-> 1]
    ELSE [db |-> d, rowCount |-> 0]

\* db.delete(plans).where(id = planId AND user_id = user); the foreign key
\* plan_blocks.plan_id is ON DELETE cascade
DeletePlan(d, planId, user) ==
    IF planId \in PlanIds(d) /\ d.plans[planId].user_id = user
    THEN [db |-> [d EXCEPT
                    !.plans[planId] = Removed,
                    !.plan_blocks =
                        [i \in DOMAIN @ |->
                            IF @[i].live /\ @[i].plan_id = planId
                            THEN Removed ELSE @[i]]],
          rowCount |-> 1]
    ELSE [db |-> d, rowCount |-> 0]

\* a block row that drops the link to its task
BlockRowUnlinked(v) ==
    [live |-> TRUE,
     plan_id |-> v.plan_id,
     task_id |-> NULL,
     title |-> v.title,
     start_ts |-> v.start_ts,
     end_ts |-> v.end_ts,
     completed |-> v.completed,
     order_index |-> v.order_index]

BlockRow(v) ==
    [live |-> TRUE,
     plan_id |-> v.plan_id,
     task_id |-> v.task_id,
     title |-> v.title,
     start_ts |-> v.start_ts,
     end_ts |-> v.end_ts,
     completed |-> v.completed,
     order_index |-> v.order_index]

\* NOT NULL columns, Invalid Dates and the two foreign keys of plan_blocks
BlockColumnOk(d, c, x) ==
    CASE c = "plan_id" -> x \in PlanIds(d)
      [] c = "task_id" -> x = NULL \/ x \in TaskIds(d)
      [] c = "title" -> x \notin {Undef, Null}
      [] c \in {"start_ts", "end_ts"} -> x \in Instants
      [] OTHER -> TRUE

BlockValuesOk(d, v) ==
    \A c \in {"plan_id", "task_id", "title", "start_ts", "end_ts"} :
        BlockColumnOk(d, c, v[c])

\* an insert that takes an empty list of values and writes nothing for it
InsertBlocksOrNone(d, rows) ==
    IF \A i \in DOMAIN rows : BlockValuesOk(d, rows[i])
    THEN [ok |-> TRUE,
          db |-> [d EXCEPT !.plan_blocks =
                      @ \o [i \in DOMAIN rows |-> BlockRow(rows[i])]],
          ids |-> [i \in DOMAIN rows |-> Len(d.plan_blocks) + i]]
    ELSE [ok |-> FALSE, db |-> d, ids |-> <<>>]

\* insert(plan_blocks).values(rows): [ok, db, ids].  An empty list of values
\* is refused by the query builder.
InsertBlocks(d, rows) ==
    IF rows # <<>> /\ \A i \in DOMAIN rows : BlockValuesOk(d, rows[i])
    THEN [ok |-> TRUE,
          db |-> [d EXCEPT !.plan_blocks =
                      @ \o [i \in DOMAIN rows |-> BlockRow(rows[i])]],
          ids |-> [i \in DOMAIN rows |-> Len(d.plan_blocks) + i]]
    ELSE [ok |-> FALSE, db |-> d, ids |-> <<>>]

\* db.update(plan_blocks).set(set).where(id = blockId AND plan_id = planId)
UpdateBlock(d, blockId, planId, set) ==
    IF \E c \in DOMAIN set : ~BlockColumnOk(d, c, set[c])
    THEN [ok |-> FALSE, db |-> d, rowCount |-> 0]
    ELSE IF blockId \in BlockIds(d) /\ d.plan_blocks[blockId].plan_id = planId
    THEN [ok |-> TRUE,
          db |-> [d EXCEPT !.plan_blocks[blockId] = Assign(@, set)],
          rowCount |-> 1]
    ELSE [ok |-> TRUE, db |-> d, rowCount |-> 0]

\* db.delete(plan_blocks).where(id = blockId AND plan_id = planId)
DeleteBlock(d, blockId, planId) ==
    IF blockId \in BlockIds(d) /\ d.plan_blocks[blockId].plan_id = planId
    THEN [db |-> [d EXCEPT !.plan_blocks[blockId] = Removed], rowCount |-> 1]
    ELSE [db |-> d, rowCount |-> 0]

\* a guard that looks for the block in the plan and not at the plan's owner
BlockInPlan(d, blockId, planId, user) ==
    /\ blockId \in BlockIds(d)
    /\ d.plan_blocks[blockId].plan_id = planId
    /\ planId \in PlanIds(d)

\* the join plan_blocks -> plans -> owner that guards a block
OwnedBlock(d, blockId, planId, user) ==
    /\ blockId \in BlockIds(d)
    /\ d.plan_blocks[blockId].plan_id = planId
    /\ planId \in PlanIds(d)
    /\ d.plans[planId].user_id = user

\* select id from plans where id = planId and user_id = user
OwnedPlan(d, planId, user) ==
    planId \in PlanIds(d) /\ d.plans[planId].user_id = user

\* A statement the store fails on (a lost connection, a constraint): the
\* fault-th write of a request, counted from 1; 0 is no fault.
Failed(d) == [ok |-> FALSE, db |-> d, id |-> NULL, ids |-> <<>>]
Write(n, fault, d, stmt) == IF n = fault THEN Failed(d) ELSE stmt

\* a unit of work that keeps the writes of a callback that threw
Autocommit(d, t) == t.db

\* db.transaction(f): f's writes are kept when f returns and undone when it
\* throws.  t is f's outcome, t.db the store as f left it.
Transaction(d, t) == IF t.ok THEN t.db ELSE d

-----------------------------------------------------------------------------
(* Responses.  io records what the handler touched before answering: the   *)
(* store ("db") and the hosted language model ("model").                    *)

Reply(op, caller, status, body, io) ==
    [op |-> op, caller |-> caller, status |-> status, body |-> body, io |-> io]

Error(msg) == [error |-> msg]

\* a return before the first store statement
Reject(op, caller, status, msg) == Reply(op, caller, status, Error(msg), {})

\* a 401 sent only after the handler has queried the store
UnauthorizedAfterQuery(op, caller) ==
    Reply(op, caller, "401", Error("Unauthorized"), {"db"})

\* if (!session?.user?.id) return 401
Unauthorized(op, caller) == Reject(op, caller, "401", "Unauthorized")

\* a return after a store statement
Http(op, caller, status, body) == Reply(op, caller, status, body, {"db"})

\* the catch block of a route handler
InternalServerError(op, caller) ==
    Http(op, caller, "500", Error("Internal Server Error"))

\* a tool's execute returns {ok: true, ...} or throws Error(msg)
Returns(op, caller, body) == Reply(op, caller, "ok", body, {"db"})
Throws(op, caller, msg) == Reply(op, caller, msg, Error(msg), {"db"})
ThrowsUnauthorized(op, caller) ==
    Reply(op, caller, "Unauthorized", Error("Unauthorized"), {})

\* a handler's outcome: the store it leaves and the response it sends
Out(d, r) == [db |-> d, resp |-> r]

-----------------------------------------------------------------------------
(* app/api/tasks/route.ts *)

\* The rows keep, of ids up to n, in the order of the default sort (id
\* descending).
RECURSIVE RowsDesc(_, _)
RowsDesc(keep, n) ==
    IF n = 0 THEN <<>>
    ELSE (IF n \in keep THEN <<n>> ELSE <<>>) \o RowsDesc(keep, n - 1)

\* .limit(n).offset(k) of a sequence of rows
LimitOffset(rows, n, k) ==
    SubSeq(rows, k + 1, Min(Len(rows), k + n))

TaskSummary(d, id) == [id |-> id, name |-> d.task[id].title]

\* createTaskSchema.safeParse(body).success
createTaskSchema(body) ==
    /\ body.title \notin {Undef, Null, ""}
    /\ body.priority \in priority \cup {Undef}
    /\ body.status \in taskStatus \cup {Undef}
    /\ body.scheduledStart \in Instants \cup {Undef}
    /\ body.scheduledEnd \in Instants \cup {Undef}
    /\ \/ body.parserConfidence = <<>>
       \/ body.parserConfidence[1] \in 0..100
    /\ \/ body.scheduledStart = Undef
       \/ body.scheduledEnd = Undef
       \/ getTime(body.scheduledEnd) > getTime(body.scheduledStart)

\* a page that fetches limit rows and takes a full page for a next page
TaskPageFull(d, rows, page, limit) ==
    LET fetched == LimitOffset(rows, limit, (page - 1) * limit)
    IN [data |-> [i \in DOMAIN fetched |-> TaskSummary(d, fetched[i])],
        meta |-> [page |-> page, limit |-> limit,
                  hasNextPage |-> Len(fetched) = limit]]

\* the page of a task list, from the rows the query selects
TaskPage(d, rows, page, limit) ==
    LET fetched == LimitOffset(rows, limit + 1, (page - 1) * limit)
        hasNextPage == Len(fetched) > limit
        data == IF hasNextPage THEN SubSeq(fetched, 1, limit) ELSE fetched
    IN [data |-> [i \in DOMAIN data |-> TaskSummary(d, data[i])],
        meta |-> [page |-> page, limit |-> limit, hasNextPage |-> hasNextPage]]

\* GET /api/tasks
TasksGET(d, caller, q) ==
    IF caller = NoSession THEN Out(d, Unauthorized("TasksGET", caller))
    ELSE LET page == Max(1, q.page)
             limit == Min(100, Max(1, q.limit))
             keep == {id \in TaskIds(d) :
                         d.task[id].user_id = caller /\ ~d.task[id].deleted}
         IN Out(d, Http("TasksGET", caller, "200",
                        TaskPage(d, RowsDesc(keep, Len(d.task)), page, limit)))

\* GET /api/tasks, the second definition in the file
TasksGET2(d, caller, q) ==
    IF caller = NoSession THEN Out(d, Unauthorized("TasksGET2", caller))
    ELSE LET page == Max(1, q.page)
             limit == Min(100, Max(1, q.limit))
             keep == {id \in TaskIds(d) : d.task[id].user_id = caller}
         IN Out(d, Http("TasksGET2", caller, "200",
                        TaskPage(d, RowsDesc(keep, Len(d.task)), page, limit)))

\* POST /api/tasks
TasksPOST(d, caller, body) ==
    IF caller = NoSession THEN Out(d, Unauthorized("TasksPOST", caller))
    ELSE IF ~createTaskSchema(body)
    THEN Out(d, Reject("TasksPOST", caller, "400", "Invalid request"))
    ELSE LET ins == InsertTask(d,
                 [user_id |-> caller,
                  title |-> body.title,
                  priority |-> body.priority,
                  status |-> body.status,
                  scheduled_start |-> body.scheduledStart,
                  scheduled_end |-> body.scheduledEnd,
                  parser_confidence |-> body.parserConfidence,
                  semantic_metadata |-> Coalesce(body.semanticMetadata, "{}")])
         IN IF ~ins.ok THEN Out(d, InternalServerError("TasksPOST", caller))
            ELSE Out(ins.db, Http("TasksPOST", caller, "201",
                                  [id |-> ins.id, title |-> body.title]))

-----------------------------------------------------------------------------
(* app/api/tasks/[task_id]/route.ts *)

\* a get that does not look at the deleted flag
TaskGETDeleted(d, caller, task_id) ==
    IF caller = NoSession THEN Out(d, Unauthorized("TaskGET", caller))
    ELSE IF task_id \in TaskIds(d) /\ d.task[task_id].user_id = caller
    THEN Out(d, Http("TaskGET", caller, "200",
                     [id |-> task_id, row |-> d.task[task_id]]))
    ELSE Out(d, Http("TaskGET", caller, "404", Error("Task not found")))

\* GET /api/tasks/:task_id
TaskGET(d, caller, task_id) ==
    IF caller = NoSession THEN Out(d, Unauthorized("TaskGET", caller))
    ELSE IF /\ task_id \in TaskIds(d)
            /\ d.task[task_id].user_id = caller
            /\ ~d.task[task_id].deleted
    THEN Out(d, Http("TaskGET", caller, "200",
                     [id |-> task_id, row |-> d.task[task_id]]))
    ELSE Out(d, Http("TaskGET", caller, "404", Error("Task not found")))

\* a delete that also takes the task off the blocks that link it
TaskDELETEUnlink(d, caller, task_id) ==
    IF caller = NoSession THEN Out(d, Unauthorized("TaskDELETE", caller))
    ELSE LET deleteResult ==
                 UpdateTask(d, task_id, caller, [deleted |-> TRUE])
             unlinked ==
                 [deleteResult.db EXCEPT !.plan_blocks =
                     [i \in DOMAIN @ |->
                         IF @[i].live /\ @[i].task_id = task_id
                         THEN [@[i] EXCEPT !.task_id = NULL] ELSE @[i]]]
         IN IF deleteResult.rowCount = 0
            THEN Out(d, Http("TaskDELETE", caller, "404",
                             Error("Task not found or could not be deleted")))
            ELSE Out(unlinked, Http("TaskDELETE", caller, "200",
                                    [message |-> "Task deleted successfully"]))

\* a delete that finds only tasks not yet deleted
TaskDELETEOnce(d, caller, task_id) ==
    IF caller = NoSession THEN Out(d, Unauthorized("TaskDELETE", caller))
    ELSE IF task_id \in TaskIds(d) /\ d.task[task_id].deleted
    THEN Out(d, Http("TaskDELETE", caller, "404",
                     Error("Task not found or could not be deleted")))
    ELSE LET deleteResult ==
                 UpdateTask(d, task_id, caller, [deleted |-> TRUE])
         IN IF deleteResult.rowCount = 0
            THEN Out(d, Http("TaskDELETE", caller, "404",
                             Error("Task not found or could not be deleted")))
            ELSE Out(deleteResult.db,
                     Http("TaskDELETE", caller, "200",
                          [message |-> "Task deleted successfully"]))

\* DELETE /api/tasks/:task_id
TaskDELETE(d, caller, task_id) ==
    IF caller = NoSession THEN Out(d, Unauthorized("TaskDELETE", caller))
    ELSE LET deleteResult ==
                 UpdateTask(d, task_id, caller, [deleted |-> TRUE])
         IN IF ~deleteResult.ok
            THEN Out(d, InternalServerError("TaskDELETE", caller))
            ELSE IF deleteResult.rowCount = 0
            THEN Out(d, Http("TaskDELETE", caller, "404",
                             Error("Task not found or could not be deleted")))
            ELSE Out(deleteResult.db,
                     Http("TaskDELETE", caller, "200",
                          [message |-> "Task deleted successfully"]))

\* new Date(x) of a truthy input: an instant, or the Invalid Date
NewDate(x) == IF x \in Instants THEN x ELSE "bad"

\* a body that takes the parser confidence as it comes
TaskPatchBodyUnclamped(input) ==
    Field(input.title \notin {Undef, Null}, "title", input.title)
    @@ Field(input.priority \notin {Undef, Null}, "priority", input.priority)
    @@ Field(input.status \notin {Undef, Null}, "status", input.status)
    @@ Field(Truthy(input.scheduledStart), "scheduled_start",
             NewDate(input.scheduledStart))
    @@ Field(Truthy(input.scheduledEnd), "scheduled_end",
             NewDate(input.scheduledEnd))
    @@ Field(input.parserConfidence # <<>>, "parser_confidence",
             Num(input.parserConfidence))
    @@ Field(Truthy(input.semanticMetadata), "semantic_metadata",
             input.semanticMetadata)

\* the body PATCH builds from its input
TaskPatchBody(input) ==
    Field(input.title \notin {Undef, Null}, "title", input.title)
    @@ Field(input.priority \notin {Undef, Null}, "priority", input.priority)
    @@ Field(input.status \notin {Undef, Null}, "status", input.status)
    @@ Field(Truthy(input.scheduledStart), "scheduled_start",
             NewDate(input.scheduledStart))
    @@ Field(Truthy(input.scheduledEnd), "scheduled_end",
             NewDate(input.scheduledEnd))
    @@ Field(input.parserConfidence # <<>>, "parser_confidence",
             Max(0, Min(100, Num(input.parserConfidence))))
    @@ Field(Truthy(input.semanticMetadata), "semantic_metadata",
             input.semanticMetadata)

\* PATCH /api/tasks/:task_id
TaskPATCH(d, caller, task_id, input) ==
    IF caller = NoSession THEN Out(d, Unauthorized("TaskPATCH", caller))
    ELSE LET updateResult ==
                 UpdateTask(d, task_id, caller, TaskPatchBody(input))
         IN IF ~updateResult.ok
            THEN Out(d, InternalServerError("TaskPATCH", caller))
            ELSE IF updateResult.rowCount = 0
            THEN Out(d, Http("TaskPATCH", caller, "404",
                             Error("Task not found or could not be updated")))
            ELSE Out(updateResult.db,
                     Http("TaskPATCH", caller, "200",
                          [message |-> "Task updated successfully"]))

-----------------------------------------------------------------------------
(* lib/tools.ts, the task tools.  The SDK parses a tool's input with its    *)
(* inputSchema and calls execute only when it parses.                       *)

\* inputSchema of createTask
createTaskInput(input) ==
    /\ input.title \notin {Undef, Null, ""}
    /\ input.priority \in priority \cup {Undef}
    /\ input.status \in taskStatus \cup {Undef}
    /\ input.scheduledStart \in Instants \cup {Undef, Null}
    /\ input.scheduledEnd \in Instants \cup {Undef, Null}
    /\ \/ input.parserConfidence = <<>>
       \/ Num(input.parserConfidence) \in 0..100

\* inputSchema of updateTask, the task id apart
updateTaskInput(input) ==
    /\ input.title # Null
    /\ input.priority \in priority \cup {Undef}
    /\ input.status \in taskStatus \cup {Undef}
    /\ input.scheduledStart \in Instants \cup {Undef, Null}
    /\ input.scheduledEnd \in Instants \cup {Undef, Null}
    /\ \/ input.parserConfidence = <<>>
       \/ Num(input.parserConfidence) \in 0..100

\* x ? new Date(x) : undefined
DateOrUndefined(x) == IF Truthy(x) THEN NewDate(x) ELSE Undef

\* x === null ? null : new Date(x)
DateOrNull(x) == IF x = Null THEN Null ELSE NewDate(x)

\* aiTools.createTask.execute
createTask(d, caller, input) ==
    IF caller = NoSession THEN Out(d, ThrowsUnauthorized("createTask", caller))
    ELSE LET ins == InsertTask(d,
                 [user_id |-> caller,
                  title |-> input.title,
                  priority |-> input.priority,
                  status |-> input.status,
                  scheduled_start |-> DateOrUndefined(input.scheduledStart),
                  scheduled_end |-> DateOrUndefined(input.scheduledEnd),
                  parser_confidence |-> input.parserConfidence,
                  semantic_metadata |-> Coalesce(input.semanticMetadata, "{}")])
         IN IF ~ins.ok THEN Out(d, Throws("createTask", caller, "store error"))
            ELSE Out(ins.db, Returns("createTask", caller,
                                     [id |-> ins.id, title |-> input.title]))

\* the values updateTask builds from its input
updateTaskValues(input) ==
    Field(input.title # Undef, "title", input.title)
    @@ Field(input.priority # Undef, "priority", input.priority)
    @@ Field(input.status # Undef, "status", input.status)
    @@ Field(input.scheduledStart # Undef, "scheduled_start",
             DateOrNull(input.scheduledStart))
    @@ Field(input.scheduledEnd # Undef, "scheduled_end",
             DateOrNull(input.scheduledEnd))
    @@ Field(input.parserConfidence # <<>>, "parser_confidence",
             Max(0, Min(100, Num(input.parserConfidence))))
    @@ Field(input.semanticMetadata # Undef, "semantic_metadata",
             input.semanticMetadata)

\* aiTools.updateTask.execute
updateTask(d, caller, taskId, input) ==
    IF caller = NoSession THEN Out(d, ThrowsUnauthorized("updateTask", caller))
    ELSE LET result == UpdateTask(d, taskId, caller, updateTaskValues(input))
         IN IF ~result.ok THEN Out(d, Throws("updateTask", caller, "store error"))
            ELSE IF result.rowCount = 0
            THEN Out(d, Throws("updateTask", caller, "Task not found"))
            ELSE Out(result.db, Returns("updateTask", caller, [ok |-> TRUE]))

\* aiTools.deleteTask.execute
deleteTask(d, caller, taskId) ==
    IF caller = NoSession THEN Out(d, ThrowsUnauthorized("deleteTask", caller))
    ELSE LET result == UpdateTask(d, taskId, caller, [deleted |-> TRUE])
         IN IF ~result.ok THEN Out(d, Throws("deleteTask", caller, "store error"))
            ELSE IF result.rowCount = 0
            THEN Out(d, Throws("deleteTask", caller, "Task not found"))
            ELSE Out(result.db, Returns("deleteTask", caller, [ok |-> TRUE]))

\* The rows a query without ORDER BY may return under .limit(n): any n of the
\* matching rows (all of them when there are no more than n).
Limited(ids, n) ==
    {S \in SUBSET ids : Cardinality(S) = Min(n, Cardinality(ids))}

\* aiTools.listTasks.execute; rows is the selection the store makes
listTasks(d, caller, input, rows) ==
    IF caller = NoSession THEN Out(d, ThrowsUnauthorized("listTasks", caller))
    ELSE Out(d, Returns("listTasks", caller,
                        [tasks |-> {[id |-> id, title |-> d.task[id].title]
                                        : id \in rows}]))

\* the selections listTasks may get from the store
listTasksRows(d, caller, input) ==
    Limited({id \in TaskIds(d) :
                 d.task[id].user_id = caller /\ ~d.task[id].deleted},
            input.limit)

-----------------------------------------------------------------------------
(* app/api/plan/route.ts: list and create plans *)

toDate(value) == IF value \in Instants THEN value ELSE Undef

\* the blocks of a plan in descending order_index
RECURSIVE SortBlocksDescending(_, _)
SortBlocksDescending(d, ids) ==
    IF ids = {} THEN <<>>
    ELSE LET first == CHOOSE i \in ids : \A j \in ids :
                 \/ d.plan_blocks[i].order_index > d.plan_blocks[j].order_index
                 \/ /\ d.plan_blocks[i].order_index = d.plan_blocks[j].order_index
                    /\ i <= j
         IN <<first>> \o SortBlocksDescending(d, ids \ {first})

\* The blocks of a plan in ascending order_index; blocks with equal
\* order_index stay in the order the join returns them, here by id.
RECURSIVE SortBlocks(_, _)
SortBlocks(d, ids) ==
    IF ids = {} THEN <<>>
    ELSE LET first == CHOOSE i \in ids : \A j \in ids :
                 \/ d.plan_blocks[i].order_index < d.plan_blocks[j].order_index
                 \/ /\ d.plan_blocks[i].order_index = d.plan_blocks[j].order_index
                    /\ i <= j
         IN <<first>> \o SortBlocks(d, ids \ {first})

\* a nested block whose join leaves soft-deleted tasks out
NestedBlockLiveTask(d, id) ==
    LET b == d.plan_blocks[id]
    IN [id |-> id,
        plan_id |-> b.plan_id,
        task_id |-> b.task_id,
        title |-> b.title,
        start_ts |-> b.start_ts,
        end_ts |-> b.end_ts,
        completed |-> b.completed,
        order_index |-> b.order_index,
        task |-> IF b.task_id \in TaskIds(d) /\ ~d.task[b.task_id].deleted
                 THEN <<d.task[b.task_id]>>
                 ELSE <<>>]

\* one block of a nested result, with the row of the left-joined task
NestedBlock(d, id) ==
    LET b == d.plan_blocks[id]
    IN [id |-> id,
        plan_id |-> b.plan_id,
        task_id |-> b.task_id,
        title |-> b.title,
        start_ts |-> b.start_ts,
        end_ts |-> b.end_ts,
        completed |-> b.completed,
        order_index |-> b.order_index,
        task |-> IF b.task_id \in TaskIds(d) THEN <<d.task[b.task_id]>>
                 ELSE <<>>]

\* a plan with its blocks and their tasks
NestedPlan(d, planId) ==
    LET sorted == SortBlocks(d, {i \in BlockIds(d) :
                                     d.plan_blocks[i].plan_id = planId})
    IN [id |-> planId,
        user_id |-> d.plans[planId].user_id,
        title |-> d.plans[planId].title,
        blocks |-> [k \in DOMAIN sorted |-> NestedBlock(d, sorted[k])]]

\* GET /api/plan
PlansGET(d, caller) ==
    IF caller = NoSession THEN Out(d, Unauthorized("PlansGET", caller))
    ELSE Out(d, Http("PlansGET", caller, "200",
                     [plans |-> {NestedPlan(d, id) :
                                     id \in {i \in PlanIds(d) :
                                                 d.plans[i].user_id = caller}}]))

\* the early validation of one block
PlansPOSTBlockError(b) ==
    IF toDate(b.start_ts) = Undef \/ toDate(b.end_ts) = Undef
    THEN "start_ts and end_ts must be valid dates"
    ELSE IF getTime(toDate(b.end_ts)) < getTime(toDate(b.start_ts))
    THEN "end_ts must be after start_ts"
    ELSE IF Truthy(b.task.priority) /\ b.task.priority \notin priority
    THEN "task.priority is invalid"
    ELSE ""

\* The for loop of the transaction: the inline tasks it inserts and the block
\* rows it collects, from block i on, after n writes: [ok, db, rows, n].
RECURSIVE PlansPOSTLoop(_, _, _, _, _, _, _)
PlansPOSTLoop(tx, userId, planId, blocks, i, n, fault) ==
    IF i > Len(blocks) THEN [ok |-> TRUE, db |-> tx, rows |-> <<>>, n |-> n]
    ELSE
    LET b == blocks[i]
        inline == b.task.id = NULL /\ Truthy(b.task.title)
        newTask ==
            IF inline
            THEN Write(n + 1, fault, tx, InsertTask(tx,
                     [user_id |-> userId,
                      title |-> b.task.title,
                      priority |-> Coalesce(b.task.priority, "medium"),
                      status |-> Undef,
                      scheduled_start |-> toDate(b.task.scheduled_start),
                      scheduled_end |-> toDate(b.task.scheduled_end),
                      parser_confidence |->
                          IF b.task.parser_confidence = <<>> THEN <<0>>
                          ELSE <<Max(0, Min(100, Num(b.task.parser_confidence)))>>,
                      semantic_metadata |->
                          Coalesce(b.task.semantic_metadata, "{}")]))
            ELSE [ok |-> TRUE, db |-> tx, id |-> b.task.id]
        row == [plan_id |-> planId,
                task_id |-> newTask.id,
                title |-> Coalesce(b.title, Coalesce(b.task.title, "Untitled")),
                start_ts |-> toDate(b.start_ts),
                end_ts |-> toDate(b.end_ts),
                completed |-> FALSE,
                order_index |-> IF b.order_index = <<>> THEN i - 1
                                ELSE Num(b.order_index)]
    IN IF ~newTask.ok
       THEN [ok |-> FALSE, db |-> newTask.db, rows |-> <<>>, n |-> n + 1]
       ELSE LET rest == PlansPOSTLoop(newTask.db, userId, planId, blocks,
                                      i + 1, IF inline THEN n + 1 ELSE n, fault)
            IN [rest EXCEPT !.rows = <<row>> \o @]

\* The callback of db.transaction in POST: [ok, db, error, id], db being the
\* store with the writes made when the callback returned or threw.
PlansPOSTTx(d, userId, body, fault) ==
    LET plan == Write(1, fault, d,
                      InsertPlan(d, [user_id |-> userId, title |-> body.title]))
        existingTaskIds ==
            {body.blocks[i].task.id : i \in DOMAIN body.blocks} \ {NULL}
        ownedSet == {id \in TaskIds(plan.db) : id \in existingTaskIds}
        loop == PlansPOSTLoop(plan.db, userId, plan.id, body.blocks, 1, 1, fault)
        blocks == Write(loop.n + 1, fault, loop.db,
                        InsertBlocks(loop.db, loop.rows))
    IN IF ~plan.ok
       THEN [ok |-> FALSE, db |-> plan.db, error |-> "store", id |-> NULL]
       ELSE IF \E tId \in existingTaskIds : tId \notin ownedSet
       THEN [ok |-> FALSE, db |-> plan.db,
             error |-> "Task not found or not owned by user", id |-> NULL]
       ELSE IF ~loop.ok
       THEN [ok |-> FALSE, db |-> loop.db, error |-> "store", id |-> NULL]
       ELSE IF ~blocks.ok
       THEN [ok |-> FALSE, db |-> blocks.db, error |-> "store", id |-> NULL]
       ELSE [ok |-> TRUE, db |-> blocks.db, error |-> "", id |-> plan.id]

\* POST /api/plan
PlansPOST(d, caller, body, fault) ==
    IF caller = NoSession THEN Out(d, Unauthorized("PlansPOST", caller))
    ELSE IF ~Truthy(body.title)
    THEN Out(d, Reject("PlansPOST", caller, "400", "title is required"))
    ELSE IF body.blocks = <<>>
    THEN Out(d, Reject("PlansPOST", caller, "400",
                       "blocks must be a non-empty array"))
    ELSE IF \E i \in DOMAIN body.blocks : PlansPOSTBlockError(body.blocks[i]) # ""
    THEN LET i == CHOOSE k \in DOMAIN body.blocks :
                  /\ PlansPOSTBlockError(body.blocks[k]) # ""
                  /\ \A j \in 1..(k - 1) : PlansPOSTBlockError(body.blocks[j]) = ""
         IN Out(d, Reject("PlansPOST", caller, "400",
                          PlansPOSTBlockError(body.blocks[i])))
    ELSE LET created == PlansPOSTTx(d, caller, body, fault)
             after == Transaction(d, created)
         IN IF created.ok
            THEN Out(after, Http("PlansPOST", caller, "201",
                                 NestedPlan(created.db, created.id)))
            ELSE IF created.error = "Task not found or not owned by user"
            THEN Out(after, Http("PlansPOST", caller, "400",
                                 Error(created.error)))
            ELSE Out(after, InternalServerError("PlansPOST", caller))

-----------------------------------------------------------------------------
(* app/api/plan/[planId]/route.ts: add a block to a plan.  The handler runs *)
(* its statements one by one on db, outside any transaction: what it wrote  *)
(* before a statement fails stays written.                                  *)

\* POST /api/plan/:planId
BlocksPOST(d, caller, planId, body, fault) ==
    IF caller = NoSession THEN Out(d, Unauthorized("BlocksPOST", caller))
    ELSE IF toDate(body.startTs) = Undef \/ toDate(body.endTs) = Undef
    THEN Out(d, Reject("BlocksPOST", caller, "400",
                       "startTs and endTs are required and must be valid dates"))
    ELSE IF getTime(toDate(body.endTs)) < getTime(toDate(body.startTs))
    THEN Out(d, Reject("BlocksPOST", caller, "400", "endTs must be after startTs"))
    ELSE IF ~OwnedPlan(d, planId, caller)
    THEN Out(d, Http("BlocksPOST", caller, "404", Error("Plan not found")))
    ELSE
    LET t == body.task
        inline == t.id = NULL /\ Truthy(t.title)
        newTask ==
            IF inline
            THEN Write(1, fault, d, InsertTask(d,
                     [user_id |-> caller,
                      title |-> t.title,
                      priority |-> Coalesce(t.priority, "medium"),
                      status |-> Undef,
                      scheduled_start |-> toDate(t.scheduledStart),
                      scheduled_end |-> toDate(t.scheduledEnd),
                      parser_confidence |->
                          IF t.parserConfidence = <<>> THEN <<0>>
                          ELSE <<Max(0, Min(100, Num(t.parserConfidence)))>>,
                      semantic_metadata |-> Coalesce(t.semanticMetadata, "{}")]))
            ELSE [ok |-> TRUE, db |-> d, id |-> t.id]
        inserted ==
            Write(IF inline THEN 2 ELSE 1, fault, newTask.db,
                  InsertBlocks(newTask.db,
                      <<[plan_id |-> planId,
                         task_id |-> newTask.id,
                         title |-> Coalesce(body.title,
                                            Coalesce(t.title, "Untitled")),
                         start_ts |-> toDate(body.startTs),
                         end_ts |-> toDate(body.endTs),
                         completed |-> FALSE,
                         order_index |-> IF body.orderIndex = <<>> THEN 0
                                         ELSE Num(body.orderIndex)]>>))
    IN IF ~newTask.ok
       THEN Out(newTask.db, InternalServerError("BlocksPOST", caller))
       ELSE IF ~inserted.ok
       THEN Out(inserted.db, InternalServerError("BlocksPOST", caller))
       ELSE Out(inserted.db,
                Http("BlocksPOST", caller, "201",
                     [block |-> [id |-> inserted.ids[1],
                                 row |-> inserted.db.plan_blocks[inserted.ids[1]]]]))

-----------------------------------------------------------------------------
(* app/api/plan/[planId]/plan-block/[blockId]/route.ts: one block *)

\* mapUpdateBody
mapUpdateBody(input) ==
    Field(input.title \notin {Undef, Null}, "title", input.title)
    @@ Field(Truthy(input.startTs), "start_ts", NewDate(input.startTs))
    @@ Field(Truthy(input.endTs), "end_ts", NewDate(input.endTs))
    @@ Field(input.completed # Undef, "completed", input.completed = "true")
    @@ Field(input.orderIndex # <<>>, "order_index", Num(input.orderIndex))
    @@ Field(input.taskId # <<>>, "task_id", Num(input.taskId))

\* GET /api/plan/:planId/plan-block/:blockId
BlockGET(d, caller, planId, blockId) ==
    IF caller = NoSession THEN Out(d, Unauthorized("BlockGET", caller))
    ELSE IF ~OwnedBlock(d, blockId, planId, caller)
    THEN Out(d, Http("BlockGET", caller, "404", Error("Block not found")))
    ELSE Out(d, Http("BlockGET", caller, "200",
                     [block |-> [id |-> blockId, row |-> d.plan_blocks[blockId]]]))

\* DELETE /api/plan/:planId/plan-block/:blockId
BlockDELETE(d, caller, planId, blockId) ==
    IF caller = NoSession THEN Out(d, Unauthorized("BlockDELETE", caller))
    ELSE IF ~OwnedBlock(d, blockId, planId, caller)
    THEN Out(d, Http("BlockDELETE", caller, "404", Error("Block not found")))
    ELSE LET deleted == DeleteBlock(d, blockId, planId)
         IN IF deleted.rowCount = 0
            THEN Out(d, Http("BlockDELETE", caller, "404",
                             Error("Block not found or could not be deleted")))
            ELSE Out(deleted.db, Http("BlockDELETE", caller, "200",
                                      [message |-> "Block deleted successfully"]))

\* PATCH /api/plan/:planId/plan-block/:blockId
BlockPATCH(d, caller, planId, blockId, raw) ==
    IF caller = NoSession THEN Out(d, Unauthorized("BlockPATCH", caller))
    ELSE IF ~OwnedBlock(d, blockId, planId, caller)
    THEN Out(d, Http("BlockPATCH", caller, "404",
                     Error("Block not found or not owned by user")))
    ELSE LET updated == UpdateBlock(d, blockId, planId, mapUpdateBody(raw))
         IN IF ~updated.ok
            THEN Out(d, InternalServerError("BlockPATCH", caller))
            ELSE IF updated.rowCount = 0
            THEN Out(d, Http("BlockPATCH", caller, "404",
                             Error("Block not found or could not be updated")))
            ELSE Out(updated.db,
                     Http("BlockPATCH", caller, "200",
                          [block |-> [id |-> blockId,
                                      row |-> updated.db.plan_blocks[blockId]]]))

-----------------------------------------------------------------------------
(* the second half of the same file: one plan *)

NotAUuid == -1

\* UUID_RE.test(planId)
UUID_RE(planId) == planId # NotAUuid

\* GET, plan by id
PlanGET(d, caller, planId) ==
    IF caller = NoSession THEN Out(d, Unauthorized("PlanGET", caller))
    ELSE IF ~UUID_RE(planId)
    THEN Out(d, Reject("PlanGET", caller, "400", "Invalid planId"))
    ELSE IF ~OwnedPlan(d, planId, caller)
    THEN Out(d, Http("PlanGET", caller, "404", Error("Plan not found")))
    ELSE Out(d, Http("PlanGET", caller, "200", [plan |-> NestedPlan(d, planId)]))

\* DELETE, plan by id
PlanDELETE(d, caller, planId) ==
    IF caller = NoSession THEN Out(d, Unauthorized("PlanDELETE", caller))
    ELSE IF ~UUID_RE(planId)
    THEN Out(d, Reject("PlanDELETE", caller, "400", "Invalid planId"))
    ELSE LET deleteCount == DeletePlan(d, planId, caller)
         IN IF deleteCount.rowCount = 0
            THEN Out(d, Http("PlanDELETE", caller, "404",
                             Error("Plan not found or could not be deleted")))
            ELSE Out(deleteCount.db, Http("PlanDELETE", caller, "200",
                                          [message |-> "Plan deleted successfully"]))

\* PATCH, plan by id; a key whose value is undefined is left out of the SET
PlanPATCH(d, caller, planId, body) ==
    IF caller = NoSession THEN Out(d, Unauthorized("PlanPATCH", caller))
    ELSE IF ~UUID_RE(planId)
    THEN Out(d, Reject("PlanPATCH", caller, "400", "Invalid planId"))
    ELSE LET updateCount ==
                 UpdatePlan(d, planId, caller,
                            Field(body.title # Undef, "title", body.title))
         IN IF ~updateCount.ok
            THEN Out(d, InternalServerError("PlanPATCH", caller))
            ELSE IF updateCount.rowCount = 0
            THEN Out(d, Http("PlanPATCH", caller, "404",
                             Error("Plan not found or could not be updated")))
            ELSE Out(updateCount.db,
                     Http("PlanPATCH", caller, "200",
                          [message |-> "Plan updated successfully"]))

-----------------------------------------------------------------------------
(* lib/tools.ts, the plan and block tools *)

\* inputSchema of one block of createPlan, and of addPlanBlock
blockInput(b) ==
    /\ b.title # Null
    /\ b.startTs \in Instants
    /\ b.endTs \in Instants
    /\ b.task.title # Null
    /\ b.task.priority \in priority \cup {Undef}
    /\ b.task.scheduledStart \in Instants \cup {Undef, Null}
    /\ b.task.scheduledEnd \in Instants \cup {Undef, Null}
    /\ \/ b.task.parserConfidence = <<>>
       \/ Num(b.task.parserConfidence) \in 0..100

\* inputSchema of createPlan
createPlanInput(input) ==
    /\ input.title \notin {Undef, Null, ""}
    /\ \A i \in DOMAIN input.blocks : blockInput(input.blocks[i])

\* an inline task that takes a priority of its own instead of the column default
toolInlineTaskHigh(userId, t) ==
    [user_id |-> userId,
     title |-> t.title,
     priority |-> "high",
     status |-> Undef,
     scheduled_start |-> Undef,
     scheduled_end |-> Undef,
     parser_confidence |-> <<0>>,
     semantic_metadata |-> "{}"]

\* the inline task createPlan and addPlanBlock insert for a block
toolInlineTask(userId, t) ==
    [user_id |-> userId,
     title |-> t.title,
     priority |-> t.priority,
     status |-> Undef,
     scheduled_start |-> DateOrUndefined(t.scheduledStart),
     scheduled_end |-> DateOrUndefined(t.scheduledEnd),
     parser_confidence |->
         IF t.parserConfidence = <<>> THEN <<0>>
         ELSE <<Max(0, Min(100, Num(t.parserConfidence)))>>,
     semantic_metadata |-> Coalesce(t.semanticMetadata, "{}")]

\* the for loop of createPlan's transaction: [ok, db, rows, n]
RECURSIVE createPlanLoop(_, _, _, _, _, _, _)
createPlanLoop(tx, userId, planId, blocks, i, n, fault) ==
    IF i > Len(blocks) THEN [ok |-> TRUE, db |-> tx, rows |-> <<>>, n |-> n]
    ELSE
    LET b == blocks[i]
        inline == b.task.id = NULL /\ Truthy(b.task.title)
        newTask ==
            IF inline
            THEN Write(n + 1, fault, tx,
                       InsertTask(tx, toolInlineTask(userId, b.task)))
            ELSE [ok |-> TRUE, db |-> tx, id |-> b.task.id]
        row == [plan_id |-> planId,
                task_id |-> newTask.id,
                title |-> Coalesce(b.title, Coalesce(b.task.title, "Untitled")),
                start_ts |-> NewDate(b.startTs),
                end_ts |-> NewDate(b.endTs),
                completed |-> FALSE,
                order_index |-> IF b.orderIndex = <<>> THEN i - 1
                                ELSE Num(b.orderIndex)]
    IN IF ~newTask.ok
       THEN [ok |-> FALSE, db |-> newTask.db, rows |-> <<>>, n |-> n + 1]
       ELSE LET rest == createPlanLoop(newTask.db, userId, planId, blocks,
                                       i + 1, IF inline THEN n + 1 ELSE n, fault)
            IN [rest EXCEPT !.rows = <<row>> \o @]

\* the callback of db.transaction in createPlan: [ok, db, id]
createPlanTx(d, userId, input, fault) ==
    LET plan == Write(1, fault, d,
                      InsertPlan(d, [user_id |-> userId, title |-> input.title]))
        loop == createPlanLoop(plan.db, userId, plan.id, input.blocks, 1, 1, fault)
        blocks == Write(loop.n + 1, fault, loop.db,
                        InsertBlocks(loop.db, loop.rows))
    IN IF ~plan.ok THEN [ok |-> FALSE, db |-> plan.db, id |-> NULL]
       ELSE IF ~loop.ok THEN [ok |-> FALSE, db |-> loop.db, id |-> NULL]
       ELSE IF ~blocks.ok THEN [ok |-> FALSE, db |-> blocks.db, id |-> NULL]
       ELSE [ok |-> TRUE, db |-> blocks.db, id |-> plan.id]

\* aiTools.createPlan.execute
createPlan(d, caller, input, fault) ==
    IF caller = NoSession THEN Out(d, ThrowsUnauthorized("createPlan", caller))
    ELSE LET created == createPlanTx(d, caller, input, fault)
             after == Transaction(d, created)
         IN IF created.ok
            THEN Out(after, Returns("createPlan", caller,
                                    [plan |-> [id |-> created.id,
                                               title |-> input.title]]))
            ELSE Out(after, Throws("createPlan", caller, "store error"))

\* aiTools.updatePlan.execute
updatePlan(d, caller, planId, input) ==
    IF caller = NoSession THEN Out(d, ThrowsUnauthorized("updatePlan", caller))
    ELSE LET result == UpdatePlan(d, planId, caller,
                                  Field(input.title # Undef, "title", input.title))
         IN IF ~result.ok THEN Out(d, Throws("updatePlan", caller, "store error"))
            ELSE IF result.rowCount = 0
            THEN Out(d, Throws("updatePlan", caller, "Plan not found"))
            ELSE Out(result.db, Returns("updatePlan", caller, [ok |-> TRUE]))

\* aiTools.deletePlan.execute
deletePlan(d, caller, planId) ==
    IF caller = NoSession THEN Out(d, ThrowsUnauthorized("deletePlan", caller))
    ELSE LET deleted == DeletePlan(d, planId, caller)
         IN IF deleted.rowCount = 0
            THEN Out(d, Throws("deletePlan", caller, "Plan not found"))
            ELSE Out(deleted.db, Returns("deletePlan", caller, [ok |-> TRUE]))

\* aiTools.addPlanBlock.execute: statements run one by one on db
addPlanBlock(d, caller, planId, input, fault) ==
    IF caller = NoSession THEN Out(d, ThrowsUnauthorized("addPlanBlock", caller))
    ELSE IF ~OwnedPlan(d, planId, caller)
    THEN Out(d, Throws("addPlanBlock", caller, "Plan not found"))
    ELSE
    LET t == input.task
        inline == t.id = NULL /\ Truthy(t.title)
        newTask ==
            IF inline
            THEN Write(1, fault, d, InsertTask(d, toolInlineTask(caller, t)))
            ELSE [ok |-> TRUE, db |-> d, id |-> t.id]
        block ==
            Write(IF inline THEN 2 ELSE 1, fault, newTask.db,
                  InsertBlocks(newTask.db,
                      <<[plan_id |-> planId,
                         task_id |-> newTask.id,
                         title |-> Coalesce(input.title,
                                            Coalesce(t.title, "Untitled")),
                         start_ts |-> NewDate(input.startTs),
                         end_ts |-> NewDate(input.endTs),
                         completed |-> FALSE,
                         order_index |-> IF input.orderIndex = <<>> THEN 0
                                         ELSE Num(input.orderIndex)]>>))
    IN IF ~newTask.ok
       THEN Out(newTask.db, Throws("addPlanBlock", caller, "store error"))
       ELSE IF ~block.ok
       THEN Out(block.db, Throws("addPlanBlock", caller, "store error"))
       ELSE Out(block.db,
                Returns("addPlanBlock", caller,
                        [block |-> [id |-> block.ids[1],
                                    title |-> block.db.plan_blocks[block.ids[1]].title]]))

\* the values updatePlanBlock builds from its input
updatePlanBlockValues(input) ==
    Field(input.title # Undef, "title", input.title)
    @@ Field(input.startTs # Undef, "start_ts", DateOrNull(input.startTs))
    @@ Field(input.endTs # Undef, "end_ts", DateOrNull(input.endTs))
    @@ Field(input.completed # Undef, "completed", input.completed = "true")
    @@ Field(input.orderIndex # <<>>, "order_index", Num(input.orderIndex))
    @@ Field(input.taskId # <<>>, "task_id", Num(input.taskId))

\* aiTools.updatePlanBlock.execute
updatePlanBlock(d, caller, planId, blockId, input) ==
    IF caller = NoSession
    THEN Out(d, ThrowsUnauthorized("updatePlanBlock", caller))
    ELSE IF ~OwnedPlan(d, planId, caller)
    THEN Out(d, Throws("updatePlanBlock", caller, "Plan not found"))
    ELSE LET updated == UpdateBlock(d, blockId, planId,
                                    updatePlanBlockValues(input))
         IN IF ~updated.ok
            THEN Out(d, Throws("updatePlanBlock", caller, "store error"))
            ELSE IF updated.rowCount = 0
            THEN Out(d, Throws("updatePlanBlock", caller, "Block not found"))
            ELSE Out(updated.db, Returns("updatePlanBlock", caller, [ok |-> TRUE]))

\* aiTools.deletePlanBlock.execute
deletePlanBlock(d, caller, planId, blockId) ==
    IF caller = NoSession
    THEN Out(d, ThrowsUnauthorized("deletePlanBlock", caller))
    ELSE IF ~OwnedPlan(d, planId, caller)
    THEN Out(d, Throws("deletePlanBlock", caller, "Plan not found"))
    ELSE LET deleted == DeleteBlock(d, blockId, planId)
         IN IF deleted.rowCount = 0
            THEN Out(d, Throws("deletePlanBlock", caller, "Block not found"))
            ELSE Out(deleted.db, Returns("deletePlanBlock", caller, [ok |-> TRUE]))

-----------------------------------------------------------------------------
(* app/api/chat/route.ts, both definitions: the session check, then the     *)
(* call of the hosted model.                                                *)

ChatPOST(d, caller) ==
    IF caller = NoSession THEN Out(d, Unauthorized("ChatPOST", caller))
    ELSE Out(d, Reply("ChatPOST", caller, "200", [stream |-> "tools"], {"model"}))

ChatPOST2(d, caller) ==
    IF caller = NoSession THEN Out(d, Unauthorized("ChatPOST2", caller))
    ELSE Out(d, Reply("ChatPOST2", caller, "200", [stream |-> "text"], {"model"}))

-----------------------------------------------------------------------------
(* Requests.  The tools take camelCase inputs and so does the add-block     *)
(* route; POST /api/plan takes the same request in snake_case.              *)

NoTask ==
    [id |-> NULL, title |-> Undef, priority |-> Undef,
     scheduledStart |-> Undef, scheduledEnd |-> Undef,
     parserConfidence |-> <<>>, semanticMetadata |-> Undef]

NewTask(title) ==
    [title |-> title, priority |-> Undef, status |-> Undef,
     scheduledStart |-> Undef, scheduledEnd |-> Undef,
     parserConfidence |-> <<>>, semanticMetadata |-> Undef]

NoPatch ==
    [title |-> Undef, priority |-> Undef, status |-> Undef,
     scheduledStart |-> Undef, scheduledEnd |-> Undef,
     parserConfidence |-> <<>>, semanticMetadata |-> Undef]

NoBlockPatch ==
    [title |-> Undef, startTs |-> Undef, endTs |-> Undef, completed |-> Undef,
     orderIndex |-> <<>>, taskId |-> <<>>]

Block(span, task) ==
    [title |-> Undef, startTs |-> span[1], endTs |-> span[2],
     orderIndex |-> <<>>, task |-> task]

SnakeCaseTask(t) ==
    [id |-> t.id, title |-> t.title, priority |-> t.priority,
     scheduled_start |-> t.scheduledStart, scheduled_end |-> t.scheduledEnd,
     parser_confidence |-> t.parserConfidence,
     semantic_metadata |-> t.semanticMetadata]

SnakeCaseBlock(b) ==
    [title |-> b.title, start_ts |-> b.startTs, end_ts |-> b.endTs,
     order_index |-> b.orderIndex, task |-> SnakeCaseTask(b.task)]

SnakeCase(input) ==
    [title |-> input.title,
     blocks |-> [i \in DOMAIN input.blocks |-> SnakeCaseBlock(input.blocks[i])]]

\* ids a request may name: every id handed out so far and one never handed out
Named(table) == 1..(Len(table) + 1)

\* the task of a block: none, an inline title, or the id of a task
TaskRefs(d) ==
    {NoTask, [NoTask EXCEPT !.title = "Gym"]}
        \cup {[NoTask EXCEPT !.id = id] : id \in Named(d.task)}

\* start and end of a block: end after, equal to and before start
Spans == {<<"T1", "T2">>, <<"T2", "T2">>, <<"T2", "T1">>}

\* add-block requests: any span without a task, any task with a proper span
Blocks(d) ==
    {Block(span, NoTask) : span \in Spans}
        \cup {Block(<<"T1", "T2">>, task) : task \in TaskRefs(d)}

\* create-plan requests: no block, one block, or two blocks
PlanInputs(d) ==
    {[title |-> "Sat", blocks |-> bs] :
        bs \in {<<>>} \cup {<<b>> : b \in Blocks(d)}
                  \cup {<<Block(<<"T1", "T2">>, t), Block(<<"T1", "T2">>, NoTask)>> :
                            t \in TaskRefs(d)}}

TaskInputs == {NewTask("Gym"), NewTask("")}
TaskPatches == {[NoPatch EXCEPT !.status = "completed"]}
BlockPatches == {[NoBlockPatch EXCEPT !.startTs = "T2"]}
PlanPatches == {[title |-> "Sun"]}
Queries == {[page |-> 1, limit |-> 20]}
Limits == {[limit |-> 20]}
\* the write that fails (0: none): a plan with two blocks, one with an inline
\* task, writes three times; adding a block with an inline task writes twice
PlanFaults == 0..3
BlockFaults == 0..2

-----------------------------------------------------------------------------
(* The system: requests arrive one at a time, each handled to its end.      *)

WithinBounds(d) ==
    /\ Len(d.task) <= MaxTasks
    /\ Len(d.plans) <= MaxPlans
    /\ Len(d.plan_blocks) <= MaxBlocks

\* no response is on its way: the next request can be taken
Idle == Reply("none", NoSession, "", Error(""), {})

Do(out) ==
    /\ WithinBounds(out.db)
    /\ db' = out.db
    /\ resp' = out.resp

Init ==
    /\ db = EmptyDb
    /\ resp = Idle

OnTasksGET ==
    /\ resp = Idle
    /\ \E caller \in Callers, q \in Queries : Do(TasksGET(db, caller, q))
OnTasksGET2 ==
    /\ resp = Idle
    /\ \E caller \in Callers, q \in Queries : Do(TasksGET2(db, caller, q))
OnTasksPOST ==
    /\ resp = Idle
    /\ Len(db.task) < MaxTasks
    /\ \E caller \in Callers, body \in TaskInputs : Do(TasksPOST(db, caller, body))
OnTaskGET ==
    /\ resp = Idle
    /\ \E caller \in Callers, id \in Named(db.task) : Do(TaskGET(db, caller, id))
OnTaskDELETE ==
    /\ resp = Idle
    /\ \E caller \in Callers, id \in Named(db.task) : Do(TaskDELETE(db, caller, id))
OnTaskPATCH ==
    /\ resp = Idle
    /\ \E caller \in Callers, id \in Named(db.task), input \in TaskPatches :
           Do(TaskPATCH(db, caller, id, input))

OncreateTask ==
    /\ resp = Idle
    /\ Len(db.task) < MaxTasks
    /\ \E caller \in Callers, input \in {i \in TaskInputs : createTaskInput(i)} :
           Do(createTask(db, caller, input))
OnupdateTask ==
    /\ resp = Idle
    /\ \E caller \in Callers, id \in Named(db.task),
          input \in {i \in TaskPatches : updateTaskInput(i)} :
           Do(updateTask(db, caller, id, input))
OndeleteTask ==
    /\ resp = Idle
    /\ \E caller \in Callers, id \in Named(db.task) : Do(deleteTask(db, caller, id))
OnlistTasks ==
    /\ resp = Idle
    /\ \E caller \in Callers, input \in Limits :
           IF caller = NoSession THEN Do(listTasks(db, caller, input, {}))
           ELSE \E rows \in listTasksRows(db, caller, input) :
                    Do(listTasks(db, caller, input, rows))

OnPlansGET ==
    /\ resp = Idle
    /\ \E caller \in Callers : Do(PlansGET(db, caller))
OnPlansPOST ==
    /\ resp = Idle
    /\ Len(db.plans) < MaxPlans
    /\ \E caller \in Callers, input \in PlanInputs(db), fault \in PlanFaults :
           /\ caller = NoSession => fault = 0
           /\ Do(PlansPOST(db, caller, SnakeCase(input), fault))
OnBlocksPOST ==
    /\ resp = Idle
    /\ Len(db.plan_blocks) < MaxBlocks
    /\ \E caller \in Callers, planId \in Named(db.plans), body \in Blocks(db),
          fault \in BlockFaults :
           /\ caller = NoSession => fault = 0
           /\ Do(BlocksPOST(db, caller, planId, body, fault))
OnBlockGET ==
    /\ resp = Idle
    /\ \E caller \in Callers, planId \in Named(db.plans),
          blockId \in Named(db.plan_blocks) :
           Do(BlockGET(db, caller, planId, blockId))
OnBlockDELETE ==
    /\ resp = Idle
    /\ \E caller \in Callers, planId \in Named(db.plans),
          blockId \in Named(db.plan_blocks) :
           Do(BlockDELETE(db, caller, planId, blockId))
OnBlockPATCH ==
    /\ resp = Idle
    /\ \E caller \in Callers, planId \in Named(db.plans),
          blockId \in Named(db.plan_blocks), raw \in BlockPatches :
           Do(BlockPATCH(db, caller, planId, blockId, raw))
OnPlanGET ==
    /\ resp = Idle
    /\ \E caller \in Callers, planId \in Named(db.plans) \cup {NotAUuid} :
           Do(PlanGET(db, caller, planId))
OnPlanDELETE ==
    /\ resp = Idle
    /\ \E caller \in Callers, planId \in Named(db.plans) \cup {NotAUuid} :
           Do(PlanDELETE(db, caller, planId))
OnPlanPATCH ==
    /\ resp = Idle
    /\ \E caller \in Callers, planId \in Named(db.plans) \cup {NotAUuid},
          body \in PlanPatches :
           Do(PlanPATCH(db, caller, planId, body))

OncreatePlan ==
    /\ resp = Idle
    /\ Len(db.plans) < MaxPlans
    /\ \E caller \in Callers, input \in {i \in PlanInputs(db) : createPlanInput(i)},
          fault \in PlanFaults :
           /\ caller = NoSession => fault = 0
           /\ Do(createPlan(db, caller, input, fault))
OnupdatePlan ==
    /\ resp = Idle
    /\ \E caller \in Callers, planId \in Named(db.plans), input \in PlanPatches :
           Do(updatePlan(db, caller, planId, input))
OndeletePlan ==
    /\ resp = Idle
    /\ \E caller \in Callers, planId \in Named(db.plans) :
           Do(deletePlan(db, caller, planId))
OnaddPlanBlock ==
    /\ resp = Idle
    /\ Len(db.plan_blocks) < MaxBlocks
    /\ \E caller \in Callers, planId \in Named(db.plans),
          input \in {b \in Blocks(db) : blockInput(b)}, fault \in BlockFaults :
           /\ caller = NoSession => fault = 0
           /\ Do(addPlanBlock(db, caller, planId, input, fault))
OnupdatePlanBlock ==
    /\ resp = Idle
    /\ \E caller \in Callers, planId \in Named(db.plans),
          blockId \in Named(db.plan_blocks), input \in BlockPatches :
           Do(updatePlanBlock(db, caller, planId, blockId, input))
OndeletePlanBlock ==
    /\ resp = Idle
    /\ \E caller \in Callers, planId \in Named(db.plans),
          blockId \in Named(db.plan_blocks) :
           Do(deletePlanBlock(db, caller, planId, blockId))

OnChatPOST ==
    /\ resp = Idle
    /\ \E caller \in Callers : Do(ChatPOST(db, caller))
OnChatPOST2 ==
    /\ resp = Idle
    /\ \E caller \in Callers : Do(ChatPOST2(db, caller))

\* the response has been sent
Return ==
    /\ resp # Idle
    /\ resp' = Idle
    /\ UNCHANGED db

Next ==
    \/ OnTasksGET \/ OnTasksGET2 \/ OnTasksPOST
    \/ OnTaskGET \/ OnTaskDELETE \/ OnTaskPATCH
    \/ OncreateTask \/ OnupdateTask \/ OndeleteTask \/ OnlistTasks
    \/ OnPlansGET \/ OnPlansPOST \/ OnBlocksPOST
    \/ OnBlockGET \/ OnBlockDELETE \/ OnBlockPATCH
    \/ OnPlanGET \/ OnPlanDELETE \/ OnPlanPATCH
    \/ OncreatePlan \/ OnupdatePlan \/ OndeletePlan
    \/ OnaddPlanBlock \/ OnupdatePlanBlock \/ OndeletePlanBlock
    \/ OnChatPOST \/ OnChatPOST2
    \/ Return

Spec == Init /\ [][Next]_vars

-----------------------------------------------------------------------------
(* Properties.  A step that handles a request leaves its response in resp', *)
(* named by resp'.op; db is the store before the step and db' after it.     *)

CreatePlanOps == {"PlansPOST", "createPlan"}
Succeeded(r) == r.status \in {"200", "201", "ok"}

\* C1: plan creation, by POST /api/plan and by the createPlan tool, is
\* all-or-nothing: a request that does not succeed, whichever of its writes
\* failed, leaves no plan, block or task row behind; the store is as it was
\* before the request, and a request is handled in one step, so that no other
\* request sees the rows of the failed one.
C1_PlanCreationAllOrNothing ==
    [][(resp'.op \in CreatePlanOps /\ ~Succeeded(resp')) => db' = db]_vars

\* a plan of two blocks, the first with an inline task
TwoBlocksInline ==
    [title |-> "Sat",
     blocks |-> <<Block(<<"T1", "T2">>, [NoTask EXCEPT !.title = "Gym"]),
                  Block(<<"T1", "T2">>, NoTask)>>]

\* C1 happens: POST /api/plan answered 500 to a plan of two blocks whose bulk
\* block insert failed after the plan row and the inline task row had been
\* inserted, and neither row is in the store.
C1_RolledBack ==
    /\ resp.op = "PlansPOST" /\ resp.status = "500"
    /\ db.plans = <<>> /\ db.task = <<>>
    /\ LET t == PlansPOSTTx(db, resp.caller, SnakeCase(TwoBlocksInline), 3)
       IN /\ ~t.ok
          /\ Len(t.db.plans) = 1 /\ Len(t.db.task) = 1
          /\ PlansPOST(db, resp.caller, SnakeCase(TwoBlocksInline), 3).resp = resp

\* C5: every endpoint and every tool resolves the session first: a request
\* without an authenticated user is answered 401 (a tool throws Unauthorized)
\* whatever its parameters and payload, having read and written no row and
\* not having called the language model.
C5_SessionFirst ==
    [][(resp'.op # "none" /\ resp'.caller = NoSession)
          => /\ resp'.status \in {"401", "Unauthorized"}
             /\ resp'.io = {}
             /\ db' = db]_vars

\* C5 happens: the deletePlan tool threw Unauthorized for a caller without a
\* session while a plan with blocks and a task were in the store.
C5_Refused ==
    /\ resp.op = "deletePlan" /\ resp.caller = NoSession
    /\ resp.status = "Unauthorized"
    /\ PlanIds(db) # {} /\ BlockIds(db) # {} /\ TaskIds(db) # {}

\* id names a task that is not caller's: no such task, or another user's
Unowned(d, caller, id) ==
    id # NULL /\ (id \notin TaskIds(d) \/ d.task[id].user_id # caller)

\* the handler answered 400 (a tool threw) and wrote nothing
Refused(d, o) == ~Succeeded(o.resp) /\ o.resp.status # "500" /\ o.db = d
BadRequest(d, o) == o.resp.status = "400" /\ o.db = d

\* C2: a create-plan or add-block request in which a block names a task id
\* that does not exist or is another user's is answered 400, and no plan,
\* block or task row is written by it.
C2_UnownedTaskIsBadRequest ==
    resp = Idle =>
        \A caller \in Users :
            /\ \A input \in PlanInputs(db) :
                   (\E i \in DOMAIN input.blocks :
                        Unowned(db, caller, input.blocks[i].task.id))
                   => BadRequest(db, PlansPOST(db, caller, SnakeCase(input), 0))
            /\ \A planId \in PlanIds(db), body \in Blocks(db) :
                   (OwnedPlan(db, planId, caller)
                        /\ Unowned(db, caller, body.task.id))
                   => BadRequest(db, BlocksPOST(db, caller, planId, body, 0))

\* two outcomes with the same status and the same body
Same(a, b) == a.resp.status = b.resp.status /\ a.resp.body = b.resp.body

\* a block of one hour that links the task id
Linking(id) == Block(<<"T1", "T2">>, [NoTask EXCEPT !.id = id])

\* get, update and delete of a task, plan or block, and add-block under a
\* plan, answer for another user's id as they answer for the id no: an id
\* that was never handed out
TaskLooksMissing(d, caller, t, no) ==
    /\ Same(TaskGET(d, caller, t), TaskGET(d, caller, no))
    /\ Same(TaskDELETE(d, caller, t), TaskDELETE(d, caller, no))
    /\ Same(deleteTask(d, caller, t), deleteTask(d, caller, no))
    /\ \A input \in TaskPatches :
           /\ Same(TaskPATCH(d, caller, t, input), TaskPATCH(d, caller, no, input))
           /\ Same(updateTask(d, caller, t, input), updateTask(d, caller, no, input))

PlanLooksMissing(d, caller, p, no) ==
    /\ Same(PlanGET(d, caller, p), PlanGET(d, caller, no))
    /\ Same(PlanDELETE(d, caller, p), PlanDELETE(d, caller, no))
    /\ Same(deletePlan(d, caller, p), deletePlan(d, caller, no))
    /\ \A body \in PlanPatches :
           /\ Same(PlanPATCH(d, caller, p, body), PlanPATCH(d, caller, no, body))
           /\ Same(updatePlan(d, caller, p, body), updatePlan(d, caller, no, body))
    /\ \A body \in Blocks(d) :
           /\ Same(BlocksPOST(d, caller, p, body, 0),
                   BlocksPOST(d, caller, no, body, 0))
           /\ Same(addPlanBlock(d, caller, p, body, 0),
                   addPlanBlock(d, caller, no, body, 0))

BlockLooksMissing(d, caller, b, no) ==
    \A p \in Named(d.plans) :
        /\ Same(BlockGET(d, caller, p, b), BlockGET(d, caller, p, no))
        /\ Same(BlockDELETE(d, caller, p, b), BlockDELETE(d, caller, p, no))
        /\ Same(deletePlanBlock(d, caller, p, b), deletePlanBlock(d, caller, p, no))
        /\ \A raw \in BlockPatches :
               /\ Same(BlockPATCH(d, caller, p, b, raw),
                       BlockPATCH(d, caller, p, no, raw))
               /\ Same(updatePlanBlock(d, caller, p, b, raw),
                       updatePlanBlock(d, caller, p, no, raw))

\* a task id inside plan or block creation: another user's id is answered as
\* the id no is
TaskRefLooksMissing(d, caller, t, no) ==
    LET plan(id) == [title |-> "Sat", blocks |-> <<Linking(id)>>]
    IN /\ Same(PlansPOST(d, caller, SnakeCase(plan(t)), 0),
               PlansPOST(d, caller, SnakeCase(plan(no)), 0))
       /\ Same(createPlan(d, caller, plan(t), 0), createPlan(d, caller, plan(no), 0))
       /\ \A p \in PlanIds(d) :
              /\ Same(BlocksPOST(d, caller, p, Linking(t), 0),
                      BlocksPOST(d, caller, p, Linking(no), 0))
              /\ Same(addPlanBlock(d, caller, p, Linking(t), 0),
                      addPlanBlock(d, caller, p, Linking(no), 0))

\* the ids of d that are not caller's
TasksOfOthers(d, caller) == {t \in TaskIds(d) : d.task[t].user_id # caller}
PlansOfOthers(d, caller) == {p \in PlanIds(d) : d.plans[p].user_id # caller}
BlocksOfOthers(d, caller) ==
    {b \in BlockIds(d) : d.plan_blocks[b].plan_id \in PlansOfOthers(d, caller)}

\* C3: every operation that addresses a task, plan or block id, and plan and
\* block creation for the task ids they reference, answers with the same
\* status and body when the id is another user's as when the id does not
\* exist.
C3_UnownedLooksMissing ==
    resp = Idle =>
        \A caller \in Users :
            /\ \A t \in TasksOfOthers(db, caller) :
                   /\ TaskLooksMissing(db, caller, t, Len(db.task) + 1)
                   /\ TaskRefLooksMissing(db, caller, t, Len(db.task) + 1)
            /\ \A p \in PlansOfOthers(db, caller) :
                   PlanLooksMissing(db, caller, p, Len(db.plans) + 1)
            /\ \A b \in BlocksOfOthers(db, caller) :
                   BlockLooksMissing(db, caller, b, Len(db.plan_blocks) + 1)

\* C4: a create-plan or add-block request, by HTTP or by tool, with a block
\* whose end is not after its start (end equal to start included) fails with
\* a validation error and writes no task, block or plan row.
C4_EndNotAfterStartRefused ==
    resp = Idle =>
        \A caller \in Users :
            /\ \A input \in PlanInputs(db) :
                   (\E i \in DOMAIN input.blocks :
                        getTime(input.blocks[i].endTs)
                            <= getTime(input.blocks[i].startTs))
                   => /\ BadRequest(db, PlansPOST(db, caller, SnakeCase(input), 0))
                      /\ Refused(db, createPlan(db, caller, input, 0))
            /\ \A planId \in PlanIds(db), body \in Blocks(db) :
                   (OwnedPlan(db, planId, caller)
                        /\ getTime(body.endTs) <= getTime(body.startTs))
                   => /\ BadRequest(db, BlocksPOST(db, caller, planId, body, 0))
                      /\ Refused(db, addPlanBlock(db, caller, planId, body, 0))

\* C6: no task list result, of GET /api/tasks in either definition or of the
\* listTasks tool, contains a task whose deleted flag is set.
C6_ListsHideDeleted ==
    /\ (resp.op \in {"TasksGET", "TasksGET2"} /\ resp.status = "200")
           => \A i \in DOMAIN resp.body.data :
                  ~db.task[resp.body.data[i].id].deleted
    /\ (resp.op = "listTasks" /\ resp.status = "ok")
           => \A t \in resp.body.tasks : ~db.task[t.id].deleted

\* the blocks of a fetched plan that link a task
LinkedBlocks(r) ==
    {k \in DOMAIN r.body.plan.blocks : r.body.plan.blocks[k].task_id # NULL}

\* C7: a soft-deleted task stays fetchable through a block that links it:
\* the owner's fetch of a plan succeeds, and every block of the plan that
\* links a task comes back with the same task id and with the row of that
\* task, deleted or not.
C7_DeletedTaskStaysJoined ==
    /\ (resp.op = "PlanGET" /\ resp.status = "200")
           => \A k \in LinkedBlocks(resp) :
                  LET b == resp.body.plan.blocks[k]
                  IN /\ b.task_id = db.plan_blocks[b.id].task_id
                     /\ b.task = <<db.task[b.task_id]>>
    /\ resp = Idle
           => \A p \in PlanIds(db) :
                  LET r == PlanGET(db, db.plans[p].user_id, p).resp
                  IN /\ r.status = "200"
                     /\ \A i \in BlockIds(db) :
                            db.plan_blocks[i].plan_id = p
                            => \E k \in DOMAIN r.body.plan.blocks :
                                   r.body.plan.blocks[k].id = i

\* C7 happens: the owner fetched a plan with a block that links a task the
\* owner had soft-deleted, and the block came back with the task's row.
C7_FetchedDeletedTask ==
    /\ resp.op = "PlanGET" /\ resp.status = "200"
    /\ \E k \in LinkedBlocks(resp) :
           LET b == resp.body.plan.blocks[k]
           IN /\ db.task[b.task_id].deleted
              /\ db.task[b.task_id].user_id = resp.caller
              /\ b.task = <<db.task[b.task_id]>>

DeleteTaskOps == {"TaskDELETE", "deleteTask"}
DeletePlanOps == {"PlanDELETE", "deletePlan"}
DeleteBlockOps == {"BlockDELETE", "deletePlanBlock"}

\* C8: deleting a task, by DELETE or by the deleteTask tool, never removes
\* the row: it sets deleted on one task of the caller and changes no other
\* field, no other task and no block, the blocks that link the task
\* included; a successful delete of a plan or of a block removes the row.
C8_TaskDeleteIsSoft ==
    [][/\ resp'.op \in DeleteTaskOps
              => IF Succeeded(resp')
                 THEN \E id \in TaskIds(db) :
                          /\ db.task[id].user_id = resp'.caller
                          /\ db' = [db EXCEPT !.task[id].deleted = TRUE]
                 ELSE db' = db
       /\ (resp'.op \in DeletePlanOps /\ Succeeded(resp'))
              => \E p \in PlanIds(db) : p \notin PlanIds(db')
       /\ (resp'.op \in DeleteBlockOps /\ Succeeded(resp'))
              => \E b \in BlockIds(db) : b \notin BlockIds(db')]_vars

\* C8 happens: DELETE of a task succeeded, the task is in the store with its
\* deleted flag set, and a block still links it.
C8_SoftDeletedStillLinked ==
    /\ resp.op = "TaskDELETE" /\ resp.status = "200"
    /\ \E b \in BlockIds(db) :
           LET t == db.plan_blocks[b].task_id
           IN /\ t \in TaskIds(db)
              /\ db.task[t].deleted
              /\ db.task[t].user_id = resp.caller
              /\ TaskDELETE(db, resp.caller, t).resp = resp

\* C9: after the owner deletes a plan no block whose parent is that plan
\* remains (no block is left without its plan), and every task, those the
\* blocks linked included, is still there, unchanged.
C9_PlanDeleteCascades ==
    [][(resp'.op \in DeletePlanOps /\ Succeeded(resp'))
          => /\ \E p \in PlanIds(db) \ PlanIds(db') :
                    /\ db.plans[p].user_id = resp'.caller
                    /\ \A b \in BlockIds(db') : db'.plan_blocks[b].plan_id # p
             /\ \A b \in BlockIds(db') :
                    db'.plan_blocks[b].plan_id \in PlanIds(db')
             /\ db'.task = db.task]_vars

\* C9 happens: a plan was deleted, the two blocks that were created are
\* gone, and a task one of them could link is still in the store.
C9_BlocksGoneTasksKept ==
    /\ resp.op = "PlanDELETE" /\ resp.status = "200"
    /\ PlanIds(db) = {} /\ BlockIds(db) = {}
    /\ Len(db.plan_blocks) = MaxBlocks
    /\ TaskIds(db) # {}

\* C10: for every task and every caller other than its owner, get, update
\* and delete of the task, by HTTP and by tool, report not-found and leave
\* the row as it is, soft-deleted or not.
C10_NonOwnerGetsNotFound ==
    resp = Idle =>
        \A caller \in Users :
            \A t \in TasksOfOthers(db, caller) :
                LET NotFound(o, status) == o.resp.status = status /\ o.db = db
                IN /\ NotFound(TaskGET(db, caller, t), "404")
                   /\ NotFound(TaskDELETE(db, caller, t), "404")
                   /\ NotFound(deleteTask(db, caller, t), "Task not found")
                   /\ \A input \in TaskPatches :
                          /\ NotFound(TaskPATCH(db, caller, t, input), "404")
                          /\ NotFound(updateTask(db, caller, t, input),
                                      "Task not found")

\* C10 happens: the updateTask tool threw Task not found to a user who named
\* a soft-deleted task of another user.
C10_RefusedOnDeletedTask ==
    /\ resp.op = "updateTask" /\ resp.status = "Task not found"
    /\ \E t \in TasksOfOthers(db, resp.caller) :
           /\ db.task[t].deleted
           /\ \E input \in TaskPatches :
                  updateTask(db, resp.caller, t, input).resp = resp

-----------------------------------------------------------------------------
(* Adding a block with an inline task *)

AddBlockOps == {"BlocksPOST", "addPlanBlock"}

\* C11: adding a block with an inline task is all-or-nothing: an add-block
\* request (HTTP or tool) that does not succeed, because the insert of the
\* block failed after the task was inserted, leaves no row behind, so the
\* store is as it was before the request.
C11_AddBlockAllOrNothing ==
    [][(resp'.op \in AddBlockOps /\ ~Succeeded(resp')) => db' = db]_vars

-----------------------------------------------------------------------------
(* The task of a block *)

\* a block's task as a request can give it: TaskRefs and an id with a title
TaskRefsWithTitle(d) ==
    TaskRefs(d) \cup {[NoTask EXCEPT !.id = id, !.title = "Run"] :
                          id \in Named(d.task)}

\* create-plan requests with these tasks: one block, or two blocks of which
\* the first gives a title and the second an inline title
PlansWithTasks(d) ==
    {[title |-> "Sat", blocks |-> bs] :
        bs \in {<<Block(<<"T1", "T2">>, t)>> : t \in TaskRefsWithTitle(d)}
                 \cup {<<Block(<<"T1", "T2">>, t),
                         Block(<<"T1", "T2">>, [NoTask EXCEPT !.title = "Gym"])>> :
                           t \in {u \in TaskRefsWithTitle(d) : Truthy(u.title)}}}

InlineTask(t) == t.id = NULL /\ Truthy(t.title)

\* o is the outcome on store d of a request of caller that carried blocks bs:
\* the blocks are the last rows of plan_blocks, the tasks created for them the
\* last rows of task.  Each block links the id it named, the task created for
\* it, or nothing, and exactly the inline titles became tasks, with defaults.
TasksAsRequested(d, o, caller, bs) ==
    LET n == Len(bs)
        first == Len(o.db.plan_blocks) - n
        made(i) == Cardinality({j \in 1..i : InlineTask(bs[j].task)})
    IN /\ first = Len(d.plan_blocks)
       /\ Len(o.db.task) = Len(d.task) + made(n)
       /\ \A id \in 1..Len(d.task) : o.db.task[id] = d.task[id]
       /\ \A i \in 1..n :
              LET t == bs[i].task
                  block == o.db.plan_blocks[first + i]
              IN IF t.id # NULL THEN block.task_id = t.id
                 ELSE IF Truthy(t.title)
                 THEN /\ block.task_id = Len(d.task) + made(i)
                      /\ LET row == o.db.task[block.task_id]
                         IN /\ row.user_id = caller
                            /\ row.title = t.title
                            /\ row.priority = "medium"
                            /\ row.parser_confidence = 0
                            /\ row.semantic_metadata = "{}"
                            /\ ~row.deleted
                 ELSE block.task_id = NULL

\* C12: in every plan creation and add-block that succeeds, HTTP or tool, a
\* block that names a task id links that id and creates no task, even when
\* it gives a title too; otherwise a block that gives a title creates exactly
\* one task of the caller (priority medium, parser confidence 0, empty
\* semantic metadata) and links it; otherwise it links and creates nothing.
C12_TaskOfBlock ==
    resp = Idle =>
        \A caller \in Users :
            /\ \A input \in PlansWithTasks(db) :
                   \A o \in {PlansPOST(db, caller, SnakeCase(input), 0),
                              createPlan(db, caller, input, 0)} :
                       Succeeded(o.resp) =>
                           TasksAsRequested(db, o, caller, input.blocks)
            /\ \A planId \in PlanIds(db), t \in TaskRefsWithTitle(db) :
                   \A body \in {Block(<<"T1", "T2">>, t)} :
                       \A o \in {BlocksPOST(db, caller, planId, body, 0),
                                  addPlanBlock(db, caller, planId, body, 0)} :
                           Succeeded(o.resp) =>
                               TasksAsRequested(db, o, caller, <<body>>)

\* the addPlanBlock tool has answered a request with an inline title: the new
\* block links the new task, which is the caller's and has the defaults
C12_InlineTaskCreated ==
    /\ resp.op = "addPlanBlock"
    /\ Succeeded(resp)
    /\ db.task # <<>>
    /\ db.plan_blocks[resp.body.block.id].task_id = Len(db.task)
    /\ db.task[Len(db.task)].user_id = resp.caller
    /\ db.task[Len(db.task)].title = "Gym"
    /\ db.task[Len(db.task)].priority = "medium"
    /\ resp.body.block.title = "Gym"

-----------------------------------------------------------------------------
(* The order of the blocks of a plan *)

BlockTitles == {"a", "b"}
MaxSubmitted == 3

\* create-plan requests of one to three titled blocks, none with an order index
PlansInOrder ==
    {[title |-> "Sat", blocks |-> bs] :
        bs \in UNION {[1..n -> {[Block(<<"T1", "T2">>, NoTask) EXCEPT !.title = t] :
                                    t \in BlockTitles}] : n \in 1..MaxSubmitted}}

\* fetched is the answer to GET of the plan made from input: the blocks
\* submitted, in the order submitted, the i-th at order index i - 1
FetchedInOrder(fetched, planId, input) ==
    /\ fetched.status = "200"
    /\ fetched.body.plan.id = planId
    /\ Len(fetched.body.plan.blocks) = Len(input.blocks)
    /\ \A i \in DOMAIN input.blocks :
           LET block == fetched.body.plan.blocks[i]
           IN /\ block.order_index = i - 1
              /\ block.plan_id = planId
              /\ block.title = input.blocks[i].title
              /\ block.start_ts = input.blocks[i].startTs
              /\ block.end_ts = input.blocks[i].endTs
    /\ \A i, j \in DOMAIN input.blocks :
           i < j => /\ fetched.body.plan.blocks[i].id # fetched.body.plan.blocks[j].id
                    /\ fetched.body.plan.blocks[i].order_index
                           < fetched.body.plan.blocks[j].order_index

\* C13: after a plan is created (HTTP or tool) with N blocks that give no
\* order index, a fetch of the plan returns exactly those N blocks in
\* ascending order index, the i-th block submitted at order index i,
\* counting from 0.
C13_BlocksKeepSubmissionOrder ==
    resp = Idle =>
        \A caller \in Users, input \in PlansInOrder :
            \A o \in {PlansPOST(db, caller, SnakeCase(input), 0),
                       createPlan(db, caller, input, 0)} :
                Succeeded(o.resp) =>
                    FetchedInOrder(PlanGET(o.db, caller, Len(o.db.plans)).resp,
                                   Len(o.db.plans), input)

\* the plan fetched has two blocks, at order index 0 and 1 in this order
C13_FetchedTwoInOrder ==
    /\ resp.op = "PlanGET"
    /\ resp.status = "200"
    /\ Len(resp.body.plan.blocks) = 2
    /\ resp.body.plan.blocks[1].order_index = 0
    /\ resp.body.plan.blocks[2].order_index = 1
    /\ resp.body.plan.blocks[1].id < resp.body.plan.blocks[2].id

-----------------------------------------------------------------------------
(* Creating a plan with an inline task, then fetching it *)

InlineTitles == {"Gym", "Run"}

\* the request: one block that gives a task title and no task id
OneInlineBlock(title) ==
    [title |-> "Sat",
     blocks |-> <<Block(<<"T1", "T2">>, [NoTask EXCEPT !.title = title])>>]

\* created is the answer of POST /api/plan on store d to OneInlineBlock(title)
\* and fetched the answer of GET of the plan it names
CreatedThenFetched(d, caller, title, created, fetched) ==
    /\ created.status = "201"
    /\ created.body.id \notin PlanIds(d)
    /\ Len(created.body.blocks) = 1
    /\ LET block == created.body.blocks[1]
       IN /\ block.plan_id = created.body.id
          /\ block.task_id # NULL
          /\ block.task_id \notin TaskIds(d)
          /\ Len(block.task) = 1
          /\ block.task[1].title = title
          /\ block.task[1].user_id = caller
    /\ fetched.status = "200"
    /\ fetched.body.plan.id = created.body.id
    /\ fetched.body.plan.blocks = created.body.blocks

\* C14: creating a plan (POST /api/plan) with one block that gives an inline
\* task title and no task id answers with a plan id and exactly one block,
\* which references a task new to the store, of that title and owned by the
\* caller; fetching the plan afterwards returns the same block with the same
\* task id.
C14_InlinePlanRoundTrip ==
    resp = Idle =>
        \A caller \in Users, title \in InlineTitles :
            \A o \in {PlansPOST(db, caller, SnakeCase(OneInlineBlock(title)), 0)} :
                /\ o.db.task[Len(o.db.task)].title = title
                /\ o.db.task[Len(o.db.task)].user_id = caller
                /\ CreatedThenFetched(db, caller, title, o.resp,
                                      PlanGET(o.db, caller, Len(o.db.plans)).resp)

\* POST /api/plan has answered 201 with one block whose task is the caller's
\* new task "Gym", and a fetch of the plan returns that block
C14_CreatedAndFetched ==
    /\ resp.op = "PlansPOST"
    /\ resp.status = "201"
    /\ Len(resp.body.blocks) = 1
    /\ resp.body.blocks[1].task_id = Len(db.task)
    /\ resp.body.blocks[1].task # <<>>
    /\ db.task[Len(db.task)].title = "Gym"
    /\ db.task[Len(db.task)].user_id = resp.caller
    /\ PlanGET(db, resp.caller, resp.body.id).resp.body.plan.blocks
           = resp.body.blocks

-----------------------------------------------------------------------------
(* Tools and their HTTP counterparts *)

\* the two outcomes agree: both succeed or both fail, and leave the same rows
Mirror(http, tool) ==
    /\ Succeeded(http.resp) <=> Succeeded(tool.resp)
    /\ http.db = tool.db

\* update-block requests that both paths accept: Spec's, and one with a null
BlockPatchesWithNull == BlockPatches \cup {[NoBlockPatch EXCEPT !.endTs = Null]}

MirrorCreatePlan(d, caller, inputs) ==
    \A input \in inputs :
        Mirror(PlansPOST(d, caller, SnakeCase(input), 0),
               createPlan(d, caller, input, 0))

MirrorAddBlock(d, caller, bodies) ==
    \A planId \in Named(d.plans), body \in bodies :
        Mirror(BlocksPOST(d, caller, planId, body, 0),
               addPlanBlock(d, caller, planId, body, 0))

MirrorUpdateBlock(d, caller, patches) ==
    \A planId \in Named(d.plans), blockId \in Named(d.plan_blocks),
       input \in patches :
        Mirror(BlockPATCH(d, caller, planId, blockId, input),
               updatePlanBlock(d, caller, planId, blockId, input))

MirrorUpdateTask(d, caller, patches) ==
    \A id \in Named(d.task), input \in patches :
        Mirror(TaskPATCH(d, caller, id, input), updateTask(d, caller, id, input))

\* C15: a tool and its HTTP counterpart, given the same caller, the same
\* store and the same logical input, both fail or both succeed, and leave the
\* same rows: create-plan, add-block, update-block and update-task.
C15_ToolsMirrorHttp ==
    resp = Idle =>
        \A caller \in Callers :
            /\ MirrorCreatePlan(db, caller, PlanInputs(db))
            /\ MirrorAddBlock(db, caller, Blocks(db))
            /\ MirrorUpdateBlock(db, caller, BlockPatchesWithNull)
            /\ MirrorUpdateTask(db, caller, TaskPatches)

-----------------------------------------------------------------------------
(* Start and end of stored rows *)

\* C16: in every reachable state every stored plan block ends no earlier
\* than it starts, whatever create-plan, add-block and update-block requests
\* (HTTP or tool) were made.
C16_BlockEndNotBeforeStart ==
    \A id \in BlockIds(db) :
        getTime(db.plan_blocks[id].end_ts) >= getTime(db.plan_blocks[id].start_ts)

\* every stored task that has both a scheduled start and a scheduled end
\* ends after it starts
TaskScheduleOk(d) ==
    \A id \in TaskIds(d) :
        (d.task[id].scheduled_start \in Instants
             /\ d.task[id].scheduled_end \in Instants)
        => getTime(d.task[id].scheduled_end) > getTime(d.task[id].scheduled_start)

\* scheduledStart and scheduledEnd of a request: each an instant or left out
Schedules == (Instants \cup {Undef}) \X (Instants \cup {Undef})

Scheduled(t, s) == [t EXCEPT !.scheduledStart = s[1], !.scheduledEnd = s[2]]

ScheduleKeptByTasksPOST(d, caller, s) ==
    TaskScheduleOk(TasksPOST(d, caller, Scheduled(NewTask("Gym"), s)).db)

ScheduleKeptBycreateTask(d, caller, s) ==
    createTaskInput(Scheduled(NewTask("Gym"), s))
        => TaskScheduleOk(createTask(d, caller, Scheduled(NewTask("Gym"), s)).db)

ScheduleKeptByTaskPATCH(d, caller, s) ==
    \A id \in TaskIds(d) :
        TaskScheduleOk(TaskPATCH(d, caller, id, Scheduled(NoPatch, s)).db)

ScheduleKeptByupdateTask(d, caller, s) ==
    \A id \in TaskIds(d) :
        updateTaskInput(Scheduled(NoPatch, s))
            => TaskScheduleOk(updateTask(d, caller, id, Scheduled(NoPatch, s)).db)

\* the inline task of a block, on the four paths that create one
ScheduleKeptByInlineTask(d, caller, s) ==
    LET block == Block(<<"T1", "T2">>,
                       Scheduled([NoTask EXCEPT !.title = "Gym"], s))
        input == [title |-> "Sat", blocks |-> <<block>>]
    IN /\ TaskScheduleOk(PlansPOST(d, caller, SnakeCase(input), 0).db)
       /\ TaskScheduleOk(createPlan(d, caller, input, 0).db)
       /\ \A planId \in PlanIds(d) :
              /\ TaskScheduleOk(BlocksPOST(d, caller, planId, block, 0).db)
              /\ TaskScheduleOk(addPlanBlock(d, caller, planId, block, 0).db)

\* C17: every stored task that has both a scheduled start and a scheduled
\* end ends after it starts, whatever create-task, update-task and inline
\* task creation requests (HTTP or tool) were made: from a reachable store
\* where this holds, no such request of any schedule leads to one where it
\* does not.
C17_TaskEndAfterStart ==
    (resp = Idle /\ TaskScheduleOk(db)) =>
        \A caller \in Users, s \in Schedules :
            /\ ScheduleKeptByTasksPOST(db, caller, s)
            /\ ScheduleKeptBycreateTask(db, caller, s)
            /\ ScheduleKeptByTaskPATCH(db, caller, s)
            /\ ScheduleKeptByupdateTask(db, caller, s)
            /\ ScheduleKeptByInlineTask(db, caller, s)

-----------------------------------------------------------------------------
(* Payloads that fail validation *)

\* values no schema accepts: an empty title, a word outside the enums, a
\* string that is no timestamp, a parser confidence above 100
OutOfEnum == "bogus"
OutOfRange == 101

\* one field of t invalid
Invalid(t) ==
    {[t EXCEPT !.title = ""],
     [t EXCEPT !.priority = OutOfEnum],
     [t EXCEPT !.scheduledStart = "bad"],
     [t EXCEPT !.parserConfidence = <<OutOfRange>>]}

InvalidWithStatus(t) == Invalid(t) \cup {[t EXCEPT !.status = OutOfEnum]}

\* a block with an unparseable timestamp, or with an invalid inline task
InvalidBlocks ==
    {Block(<<"bad", "T2">>, NoTask), Block(<<"T1", "bad">>, NoTask)}
        \cup {Block(<<"T1", "T2">>, t) :
                  t \in Invalid([NoTask EXCEPT !.title = "Gym"]) \ 
                            {[NoTask EXCEPT !.title = ""]}}

InvalidPlans ==
    {[title |-> "", blocks |-> <<Block(<<"T1", "T2">>, NoTask)>>]}
        \cup {[title |-> "Sat", blocks |-> <<b>>] : b \in InvalidBlocks}

InvalidBlockPatches ==
    {[NoBlockPatch EXCEPT !.title = ""], [NoBlockPatch EXCEPT !.startTs = "bad"]}

InvalidPlanPatches == {[title |-> ""]}

InvalidTasksPOST(d, caller) ==
    \A input \in InvalidWithStatus(NewTask("Gym")) :
        BadRequest(d, TasksPOST(d, caller, input))

InvalidTaskPATCH(d, caller) ==
    \A id \in {i \in TaskIds(d) : d.task[i].user_id = caller},
       input \in InvalidWithStatus(NoPatch) :
        BadRequest(d, TaskPATCH(d, caller, id, input))

InvalidPlansPOST(d, caller) ==
    \A input \in InvalidPlans :
        BadRequest(d, PlansPOST(d, caller, SnakeCase(input), 0))

InvalidBlocksPOST(d, caller) ==
    \A planId \in {i \in PlanIds(d) : d.plans[i].user_id = caller},
       input \in InvalidBlocks :
        BadRequest(d, BlocksPOST(d, caller, planId, input, 0))

InvalidBlockPATCH(d, caller) ==
    \A blockId \in BlockIds(d), input \in InvalidBlockPatches :
        d.plans[d.plan_blocks[blockId].plan_id].user_id = caller =>
            BadRequest(d, BlockPATCH(d, caller, d.plan_blocks[blockId].plan_id,
                                     blockId, input))

InvalidPlanPATCH(d, caller) ==
    \A planId \in {i \in PlanIds(d) : d.plans[i].user_id = caller},
       input \in InvalidPlanPatches :
        BadRequest(d, PlanPATCH(d, caller, planId, input))

\* C18: every HTTP endpoint answers a payload that fails validation (empty
\* title, priority or status outside its enumeration, unparseable timestamp,
\* parser confidence outside 0..100) with 400 and writes nothing; such a
\* payload never gives a 500 or a stored row.
C18_InvalidPayloadIsBadRequest ==
    resp = Idle =>
        \A caller \in Users :
            /\ InvalidTasksPOST(db, caller)
            /\ InvalidTaskPATCH(db, caller)
            /\ InvalidPlansPOST(db, caller)
            /\ InvalidBlocksPOST(db, caller)
            /\ InvalidBlockPATCH(db, caller)
            /\ InvalidPlanPATCH(db, caller)

-----------------------------------------------------------------------------
(* Plans without blocks *)

NoBlocks == [title |-> "Sat", blocks |-> <<>>]

\* the plans of store d that were not in store before
NewPlansHaveBlocks(before, d) ==
    \A planId \in PlanIds(d) \ PlanIds(before) :
        \E id \in BlockIds(d) : d.plan_blocks[id].plan_id = planId

\* C19: a create-plan request (HTTP or tool) with an empty block array is
\* rejected and leaves no plan row, whichever of its writes fails; and no
\* create-plan request, whatever its blocks, leaves a plan with zero blocks.
C19_NoPlanWithoutBlocks ==
    resp = Idle =>
        /\ \A caller \in Callers, fault \in PlanFaults :
               \A o \in {PlansPOST(db, caller, SnakeCase(NoBlocks), fault),
                          createPlan(db, caller, NoBlocks, fault)} :
                   ~Succeeded(o.resp) /\ o.db = db
        /\ \A caller \in Users, input \in PlanInputs(db) :
               /\ NewPlansHaveBlocks(db,
                      PlansPOST(db, caller, SnakeCase(input), 0).db)
               /\ createPlanInput(input) =>
                      NewPlansHaveBlocks(db, createPlan(db, caller, input, 0).db)

\* the createPlan tool has thrown on a request without blocks, which its
\* input schema accepts, and no plan is stored
C19_EmptyPlanRefusedByTool ==
    /\ resp.op = "createPlan"
    /\ resp.caller \in Users
    /\ createPlanInput(NoBlocks)
    /\ resp = createPlan(db, resp.caller, NoBlocks, 0).resp
    /\ ~Succeeded(resp)
    /\ db.plans = <<>>

-----------------------------------------------------------------------------
(* Owners and parents *)

\* C20: no operation changes the owner of an existing task or plan, or the
\* parent plan of an existing block: in every step, each task stays with its
\* user, and each plan and block that is still stored stays with its user
\* and its plan.
C20_OwnerAndParentKept ==
    [][/\ \A id \in TaskIds(db) :
              /\ id \in TaskIds(db')
              /\ db'.task[id].user_id = db.task[id].user_id
       /\ \A id \in PlanIds(db) \cap PlanIds(db') :
              db'.plans[id].user_id = db.plans[id].user_id
       /\ \A id \in BlockIds(db) \cap BlockIds(db') :
              db'.plan_blocks[id].plan_id = db.plan_blocks[id].plan_id]_vars

\* a task, a plan and a block have each been updated, the task last: each is
\* still its owner's, the block still in its plan
C20_UpdatedAndStillOwned ==
    /\ resp.op \in {"TaskPATCH", "updateTask"}
    /\ Succeeded(resp)
    /\ \E id \in TaskIds(db) :
           /\ db.task[id].status = "completed"
           /\ db.task[id].user_id = resp.caller
    /\ \E planId \in PlanIds(db), blockId \in BlockIds(db) :
           /\ db.plans[planId].title = "Sun"
           /\ db.plans[planId].user_id = resp.caller
           /\ db.plan_blocks[blockId].plan_id = planId
           /\ db.plan_blocks[blockId].start_ts = "T2"
           /\ db.plan_blocks[blockId].end_ts = "T2"

-----------------------------------------------------------------------------
(* Parser confidence *)

\* parserConfidence of a request: left out, inside 0..100, below and above
Confidences == {<<>>, <<-1>>, <<0>>, <<50>>, <<100>>, <<101>>}

Confident(t, c) == [t EXCEPT !.parserConfidence = c]

ConfidenceOk(d) ==
    \A id \in TaskIds(d) : d.task[id].parser_confidence \in 0..100

Clamped(c) == IF c = <<>> THEN 0 ELSE Max(0, Min(100, Num(c)))

\* the task that outcome o added to store d has confidence n
AddedWithConfidence(d, o, n) ==
    /\ Succeeded(o.resp)
    /\ Len(o.db.task) = Len(d.task) + 1
    /\ o.db.task[Len(o.db.task)].parser_confidence = n

\* task creation: a value outside the range is rejected, one inside stored
ConfidenceOfCreate(d, caller, c) ==
    /\ \A o \in {TasksPOST(d, caller, Confident(NewTask("Gym"), c))} :
           IF c = <<>> \/ Num(c) \in 0..100
           THEN AddedWithConfidence(d, o, Clamped(c))
           ELSE BadRequest(d, o)
    /\ createTaskInput(Confident(NewTask("Gym"), c)) =>
           AddedWithConfidence(d, createTask(d, caller, Confident(NewTask("Gym"), c)),
                               Clamped(c))
    /\ ~createTaskInput(Confident(NewTask("Gym"), c)) => Num(c) \notin 0..100

\* task update: the value stored is the value clamped
ConfidenceOfUpdate(d, caller, c) ==
    \A id \in {i \in TaskIds(d) : d.task[i].user_id = caller} :
        c # <<>> =>
            /\ \A o \in {TaskPATCH(d, caller, id, Confident(NoPatch, c))} :
                   /\ Succeeded(o.resp)
                   /\ o.db.task[id].parser_confidence = Clamped(c)
                   /\ ConfidenceOk(o.db)
            /\ updateTaskInput(Confident(NoPatch, c)) =>
                   \A o \in {updateTask(d, caller, id, Confident(NoPatch, c))} :
                       /\ o.db.task[id].parser_confidence = Clamped(c)
                       /\ ConfidenceOk(o.db)

\* inline task creation: the value stored is the value clamped
ConfidenceOfInline(d, caller, c) ==
    LET block == Block(<<"T1", "T2">>, Confident([NoTask EXCEPT !.title = "Gym"], c))
        input == [title |-> "Sat", blocks |-> <<block>>]
    IN /\ AddedWithConfidence(d, PlansPOST(d, caller, SnakeCase(input), 0),
                              Clamped(c))
       /\ createPlanInput(input) =>
              AddedWithConfidence(d, createPlan(d, caller, input, 0), Clamped(c))
       /\ \A planId \in {i \in PlanIds(d) : d.plans[i].user_id = caller} :
              /\ AddedWithConfidence(d, BlocksPOST(d, caller, planId, block, 0),
                                     Clamped(c))
              /\ blockInput(block) =>
                     AddedWithConfidence(d, addPlanBlock(d, caller, planId, block, 0),
                                         Clamped(c))

-----------------------------------------------------------------------------
(* The order index of an added block *)

BlocksOfPlan(d, planId) == {id \in BlockIds(d) : d.plan_blocks[id].plan_id = planId}

\* C22: a block added to a plan without an explicit order index (HTTP
\* add-block and the addPlanBlock tool) gets its insertion position in that
\* plan as order index: the number of blocks the plan had before it.
C22_AddedBlockTakesPosition ==
    [][(resp'.op \in AddBlockOps /\ Succeeded(resp')) =>
           LET added == db'.plan_blocks[Len(db'.plan_blocks)]
           IN added.order_index = Cardinality(BlocksOfPlan(db, added.plan_id))]_vars

-----------------------------------------------------------------------------
(* The title of a created block *)

\* title of a block in a request: left out, given, given empty
GivenTitles == {Undef, "a", ""}

TitledBlocks(d) ==
    {[Block(<<"T1", "T2">>, t) EXCEPT !.title = title] :
         t \in TaskRefsWithTitle(d), title \in GivenTitles}

\* the title the block b of a request is to be stored with
TitleOf(b) ==
    IF b.title \notin {Undef, Null} THEN b.title
    ELSE IF b.task.title \notin {Undef, Null} THEN b.task.title
    ELSE "Untitled"

\* outcome o added block b to the store as its last block, with that title
TitledAsRequested(o, b) ==
    Succeeded(o.resp) =>
        o.db.plan_blocks[Len(o.db.plan_blocks)].title = TitleOf(b)

\* C23: a created block's title is the explicit block title when one is
\* given, otherwise the title of the task supplied in the request, otherwise
\* "Untitled", for create-plan and add-block over HTTP and over the tools.
C23_BlockTitleFallsBack ==
    resp = Idle =>
        \A caller \in Users, b \in TitledBlocks(db) :
            /\ \A input \in {[title |-> "Sat", blocks |-> <<b>>]} :
                   /\ TitledAsRequested(PlansPOST(db, caller, SnakeCase(input), 0), b)
                   /\ TitledAsRequested(createPlan(db, caller, input, 0), b)
            /\ \A planId \in PlanIds(db) :
                   /\ TitledAsRequested(BlocksPOST(db, caller, planId, b, 0), b)
                   /\ TitledAsRequested(addPlanBlock(db, caller, planId, b, 0), b)

\* add-block has answered 201 for a block that names a task by id and gives
\* no title: the stored block is called "Untitled"
C23_PlaceholderTitle ==
    /\ resp.op = "BlocksPOST"
    /\ resp.status = "201"
    /\ resp.body.block.row.task_id # NULL
    /\ resp.body.block.row.title = "Untitled"
    /\ db.plan_blocks[resp.body.block.id].title = "Untitled"

-----------------------------------------------------------------------------
(* Requests in flight together.  Update and delete of a block are two       *)
(* statements, the ownership query and then the update or delete; here each *)
(* statement is a step, and requests of several callers interleave.  resp   *)
(* holds the requests that have passed their ownership query and not yet    *)
(* run their second statement, and the caller and operation of the last     *)
(* step.  Plan creation, add-block, and update and delete of a plan run as  *)
(* single steps: a transaction, or one statement that names the owner.      *)

RacePlans == 2
RaceBlocks == 2
MaxInFlight == 2

RaceOps == {"BlockPATCH", "BlockDELETE", "updatePlanBlock", "deletePlanBlock"}

RaceInit ==
    /\ db = EmptyDb
    /\ resp = [inflight |-> {}, last |-> [caller |-> NoSession, op |-> "none"]]

\* a step of caller's request op that leaves the store as d
RaceStep(caller, op, d, inflight) ==
    /\ db' = d
    /\ resp' = [inflight |-> inflight, last |-> [caller |-> caller, op |-> op]]

\* the ownership query of a block request: the routes join the block to its
\* plan and the plan's owner, the tools ask for the plan of that owner
RaceOwned(d, op, caller, planId, blockId) ==
    IF op \in {"BlockPATCH", "BlockDELETE"}
    THEN OwnedBlock(d, blockId, planId, caller)
    ELSE OwnedPlan(d, planId, caller)

\* the second statement of a block request
RaceStatement(d, r, input) ==
    CASE r.op = "BlockPATCH" ->
             UpdateBlock(d, r.blockId, r.planId, mapUpdateBody(input)).db
      [] r.op = "updatePlanBlock" ->
             UpdateBlock(d, r.blockId, r.planId, updatePlanBlockValues(input)).db
      [] OTHER -> DeleteBlock(d, r.blockId, r.planId).db

RaceCreatePlan ==
    /\ Len(db.plans) < RacePlans
    /\ Len(db.plan_blocks) < RaceBlocks
    /\ \E caller \in Users :
           RaceStep(caller, "PlansPOST",
                    PlansPOST(db, caller,
                              SnakeCase([title |-> "Sat",
                                         blocks |-> <<Block(<<"T1", "T2">>, NoTask)>>]),
                              0).db,
                    resp.inflight)

RaceAddBlock ==
    /\ Len(db.plan_blocks) < RaceBlocks
    /\ \E caller \in Users, planId \in PlanIds(db) :
           RaceStep(caller, "BlocksPOST",
                    BlocksPOST(db, caller, planId, Block(<<"T1", "T2">>, NoTask), 0).db,
                    resp.inflight)

RacePlanPATCH ==
    \E caller \in Users, planId \in PlanIds(db), input \in PlanPatches :
        RaceStep(caller, "PlanPATCH", PlanPATCH(db, caller, planId, input).db,
                 resp.inflight)

RacePlanDELETE ==
    \E caller \in Users, planId \in PlanIds(db) :
        RaceStep(caller, "PlanDELETE", PlanDELETE(db, caller, planId).db,
                 resp.inflight)

\* first statement: the request goes on only when the query finds a row
RaceCheck ==
    /\ Cardinality(resp.inflight) < MaxInFlight
    /\ \E caller \in Users, op \in RaceOps,
          planId \in Named(db.plans), blockId \in Named(db.plan_blocks) :
           /\ RaceOwned(db, op, caller, planId, blockId)
           /\ RaceStep(caller, op, db,
                       resp.inflight \cup {[caller |-> caller, op |-> op,
                                            planId |-> planId,
                                            blockId |-> blockId]})

\* second statement, on the store as it is by then
RaceAct ==
    \E r \in resp.inflight, input \in BlockPatches :
        RaceStep(r.caller, r.op, RaceStatement(db, r, input), resp.inflight \ {r})

RaceNext ==
    \/ RaceCreatePlan
    \/ RaceAddBlock
    \/ RacePlanPATCH
    \/ RacePlanDELETE
    \/ RaceCheck
    \/ RaceAct

RaceSpec == RaceInit /\ [][RaceNext]_vars

\* C24: under every interleaving of requests of different users, a plan or
\* a plan block is changed or removed only by a step of a request whose
\* caller owns the plan, or the block's parent plan: the ownership query
\* followed by a separate update or delete never lets a request of another
\* user change or remove a row.
C24_OnlyOwnerChanges ==
    [][/\ \A id \in BlockIds(db) :
              (id \notin BlockIds(db') \/ db'.plan_blocks[id] # db.plan_blocks[id])
              => db.plans[db.plan_blocks[id].plan_id].user_id = resp'.last.caller
       /\ \A id \in PlanIds(db) :
              (id \notin PlanIds(db') \/ db'.plans[id] # db.plans[id])
              => db.plans[id].user_id = resp'.last.caller]_vars

\* a request has passed its ownership query and, before its second
\* statement, its plan was deleted; a block of another user is stored
C24_PlanDeletedAfterCheck ==
    \E r \in resp.inflight :
        /\ r.planId \notin PlanIds(db)
        /\ r.blockId \notin BlockIds(db)
        /\ \E id \in BlockIds(db) :
               db.plans[db.plan_blocks[id].plan_id].user_id # r.caller

-----------------------------------------------------------------------------
(* The tasks blocks link *)

\* C25: in every reachable state, every plan block that links a task links
\* a task owned by the owner of the block's parent plan, whatever
\* create-plan, add-block and update-block requests of any users were made.
C25_LinkedTaskIsOwners ==
    \A id \in BlockIds(db) :
        db.plan_blocks[id].task_id # NULL =>
            /\ db.plan_blocks[id].task_id \in TaskIds(db)
            /\ db.task[db.plan_blocks[id].task_id].user_id
                   = db.plans[db.plan_blocks[id].plan_id].user_id

-----------------------------------------------------------------------------
(* What a user's fetches show of other users' rows *)

\* the responses user gets on store d from the plan and block fetches
FetchesOf(d, user) ==
    [list |-> PlansGET(d, user).resp,
     plan |-> [planId \in Named(d.plans) |-> PlanGET(d, user, planId).resp],
     block |-> [planId \in Named(d.plans) |->
                   [blockId \in Named(d.plan_blocks) |->
                       BlockGET(d, user, planId, blockId).resp]],
     created |-> [input \in PlanInputs(d) |->
                     PlansPOST(d, user, SnakeCase(input), 0).resp]]

\* C26: the responses a user receives from plan and block fetches (list
\* plans, get plan, get block, create-plan result) depend only on that
\* user's own rows: two stores that differ only in the contents of a task
\* of another user, here before and after its owner updates it, give the
\* user the same responses.
C26_FetchesShowOwnRowsOnly ==
    resp = Idle =>
        \A user \in Users, id \in TaskIds(db), input \in TaskPatches :
            db.task[id].user_id # user =>
                FetchesOf(db, user)
                    = FetchesOf(TaskPATCH(db, db.task[id].user_id, id, input).db,
                                user)

-----------------------------------------------------------------------------
(* Soft-deleted tasks *)

\* C27: once a task's deleted flag is set it stays set in every later
\* state: no step resets it to false or removes the row.
C27_DeletedStaysDeleted ==
    [][\A id \in TaskIds(db) :
           db.task[id].deleted =>
               /\ id \in TaskIds(db')
               /\ db'.task[id].deleted]_vars

\* the only task is soft-deleted and its owner has just updated it: it is
\* completed and still deleted
C27_UpdatedWhileDeleted ==
    /\ resp.op \in {"TaskPATCH", "updateTask"}
    /\ Succeeded(resp)
    /\ Len(db.task) = 1
    /\ db.task[1].deleted
    /\ db.task[1].status = "completed"
    /\ db.task[1].user_id = resp.caller

\* deleting twice: both deletes succeed with the same answer and the second
\* leaves the store as the first left it
DeletedTwice(first, second) ==
    /\ Succeeded(first.resp)
    /\ Succeeded(second.resp)
    /\ second.resp = first.resp
    /\ second.db = first.db

\* C28: soft-deleting a task is idempotent for its owner: a second delete
\* of the same task id (HTTP or tool) also reports success and leaves the
\* store exactly as the first delete left it.
C28_DeleteTwice ==
    resp = Idle =>
        \A id \in TaskIds(db) :
            \A caller \in {db.task[id].user_id} :
                /\ \A first \in {TaskDELETE(db, caller, id)} :
                       /\ first.db.task[id].deleted
                       /\ DeletedTwice(first, TaskDELETE(first.db, caller, id))
                       /\ Succeeded(deleteTask(first.db, caller, id).resp)
                       /\ deleteTask(first.db, caller, id).db = first.db
                /\ \A first \in {deleteTask(db, caller, id)} :
                       /\ first.db.task[id].deleted
                       /\ DeletedTwice(first, deleteTask(first.db, caller, id))

\* a delete of a task has just succeeded, and the same delete again gives
\* the same answer and the same store
C28_DeletedAndAgain ==
    /\ resp.op = "TaskDELETE"
    /\ resp.status = "200"
    /\ \E id \in TaskIds(db) :
           /\ db.task[id].deleted
           /\ db.task[id].user_id = resp.caller
           /\ TaskDELETE(db, resp.caller, id).resp = resp
           /\ TaskDELETE(db, resp.caller, id).db = db

\* C29: get-task-by-id never returns a soft-deleted task: no answer of it
\* carries a task whose deleted flag is set, and for such a task it answers
\* not-found to every signed-in caller, the task's owner included.
C29_GetHidesDeleted ==
    /\ (resp.op = "TaskGET" /\ resp.status = "200") =>
           /\ ~resp.body.row.deleted
           /\ ~db.task[resp.body.id].deleted
    /\ resp = Idle =>
           \A caller \in Users, id \in TaskIds(db) :
               db.task[id].deleted =>
                   TaskGET(db, caller, id).resp
                       = Http("TaskGET", caller, "404", Error("Task not found"))

\* the owner of a soft-deleted task, the only task stored, has asked for a
\* task and got not-found, which is the answer for the deleted task
C29_OwnerGetsNotFound ==
    /\ resp.op = "TaskGET"
    /\ resp.status = "404"
    /\ Len(db.task) = 1
    /\ db.task[1].deleted
    /\ db.task[1].user_id = resp.caller
    /\ TaskGET(db, resp.caller, 1).resp = resp

-----------------------------------------------------------------------------
(* Pages of the task list *)

ExtraTasks == 2

\* page and limit of a request: integers below, inside and above the range
PageQueries == [page : {0, 1, 2}, limit : {0, 1, 2, 101}]

\* store d after user has created k more tasks
RECURSIVE Grown(_, _, _)
Grown(d, user, k) ==
    IF k = 0 THEN d
    ELSE Grown(TasksPOST(d, user, NewTask("Gym")).db, user, k - 1)

Listable(d, user) ==
    {id \in TaskIds(d) : d.task[id].user_id = user /\ ~d.task[id].deleted}

\* r answers the list request q of a user with n listable tasks
PageAsRequested(r, q, n) ==
    LET page == IF q.page < 1 THEN 1 ELSE q.page
        limit == IF q.limit < 1 THEN 1 ELSE IF q.limit > 100 THEN 100 ELSE q.limit
    IN /\ r.status = "200"
       /\ r.body.meta.page = page
       /\ r.body.meta.limit = limit
       /\ Len(r.body.data) <= limit
       /\ Len(r.body.data) = Max(0, Min(limit, n - (page - 1) * limit))
       /\ r.body.meta.hasNextPage <=> n > page * limit

====
